---- MODULE Spec2Model ----
(***************************************************************************)
(* Transaction lifecycle and monthly-summary engine of finzz-backend.      *)
(*                                                                         *)
(* State: the Tx collection (ledger), the MonthlySummary collection        *)
(* (summaries), the wall clock (now) and, per request slot, the position   *)
(* of the handler between its awaits together with its local variables.    *)
(* One action per store step of addtxns, verifyTxn, editTxn and deleteTxn. *)
(*                                                                         *)
(* An optional value (a request field that may be undefined, a document    *)
(* field that may be absent) is a set: {} when missing, {v} when present.  *)
(***************************************************************************)
EXTENDS Integers, FiniteSets, Sequences, TLC

\* ---------------------------------------------------------------- bounds
MaxTx == 2              \* transactions ever created (ids are never reused)
MaxAmount == 2          \* amounts offered by requests are 1..MaxAmount
MaxTicks == 1           \* month roll-overs of the wall clock
MaxReq == 3             \* requests started in the step-level specifications
MaxSvcCalls == 2        \* service calls that build a starting summary state
FirstMonth == 10        \* absolute index (year * 12 + month - 1) of the
                        \* oldest month a request may name
UnitsPerMonth == 2      \* distinct instants modelled inside one month
MonthsPerYear == 12

\* ---------------------------------------------------------------- domains
Users == {"u1", "u2", "u3"}
Chats == {"c1"}                       \* chats that exist
ChatIds == Chats \cup {"c0"}          \* "c0": an id with no Chat document
ChatMembers == [c \in Chats |-> {"u1", "u2"}]
Procs == {1, 2}
TxIds == 1 .. MaxTx
Amounts == 1 .. MaxAmount
LastMonth == FirstMonth + 1 + MaxTicks
StartNow == (FirstMonth + 1) * UnitsPerMonth
\* dates a request may name: the last instant of the month already closed at
\* the start, and the first instant of every later month
Dates == {StartNow - 1}
         \cup {m * UnitsPerMonth : m \in (FirstMonth + 1) .. LastMonth}
RemarkInputs == {{}, {"r"}}

\* value of an optional number, `x || 0`
Val(f) == IF f = {} THEN 0 ELSE CHOOSE x \in f : TRUE
\* value of an optional string, `x || ""`
Str(f) == IF f = {} THEN "" ELSE CHOOSE x \in f : TRUE
\* `body.f !== undefined ? body.f : old`
OrElse(f, old) == IF f = {} THEN old ELSE CHOOSE x \in f : TRUE

\* ---------------------------------------------------------------- dates
MonthIdx(date) == date \div UnitsPerMonth
\* new Date(now.getFullYear(), now.getMonth(), 1)
currentMonthStart(t) == MonthIdx(t) * UnitsPerMonth
\* getYearMonth: { year: d.getFullYear(), month: d.getMonth() + 1 }
getYearMonth(date) ==
    [year |-> MonthIdx(date) \div MonthsPerYear,
     month |-> (MonthIdx(date) % MonthsPerYear) + 1]
Key(chatId, ym) == <<chatId, ym.year, ym.month>>
PeriodOf(tx) == Key(tx.chatId, getYearMonth(tx.date))
AllKeys == {Key(c, getYearMonth(d)) : c \in ChatIds, d \in Dates}

\* ---------------------------------------------------------------- summaries
EmptyStats == [totalSent |-> {}, totalReceived |-> {}]
EmptyDoc == [members |-> [u \in Users |-> EmptyStats], txCount |-> 0]

\* $inc of one numeric field: creates the field when it is absent
Inc(f, n) == {Val(f) + n}

\* $inc: { members.<from>.totalSent: ds, members.<to>.totalReceived: dr,
\*         txCount: dc } applied to one document
IncDoc(doc, from, to, ds, dr, dc) ==
    LET m1 == [doc.members EXCEPT ![from].totalSent = Inc(@, ds)]
        m2 == [m1 EXCEPT ![to].totalReceived = Inc(@, dr)]
    IN  [members |-> m2, txCount |-> doc.txCount + dc]

\* faulty variant: the diff reaches the sender's total only
IncTotals_sentOnly(doc, from, to, diff) ==
    [doc EXCEPT !.members[from].totalSent = Inc(@, diff)]

\* faulty variant: the $inc counts the transaction again
IncTotals_withCount(doc, from, to, diff) ==
    IncDoc(doc, from, to, diff, diff, 1)

\* same-month, same-direction path of updateSummaryOnEdit: no txCount in $inc
IncTotals(doc, from, to, diff) ==
    LET m1 == [doc.members EXCEPT ![from].totalSent = Inc(@, diff)]
        m2 == [m1 EXCEPT ![to].totalReceived = Inc(@, diff)]
    IN  [doc EXCEPT !.members = m2]

\* faulty variant: the $inc without upsert, so a first add writes nothing
updateSummaryOnAdd_noUpsert(S, chatId, txDate, from, to, amount) ==
    LET k == Key(chatId, getYearMonth(txDate))
    IN  IF k \in DOMAIN S
        THEN [S EXCEPT ![k] = IncDoc(@, from, to, amount, amount, 1)]
        ELSE S

\* faulty variant: the upsert writes the amounts with $set, so an add
\* overwrites what the document held
updateSummaryOnAdd_set(S, chatId, txDate, from, to, amount) ==
    LET k == Key(chatId, getYearMonth(txDate))
    IN  [kk \in (DOMAIN S) \cup {k} |->
            IF kk = k THEN IncDoc(EmptyDoc, from, to, amount, amount, 1)
            ELSE S[kk]]

\* updateOne(filter, $inc, { upsert: true })
updateSummaryOnAdd(S, chatId, txDate, from, to, amount) ==
    LET k == Key(chatId, getYearMonth(txDate))
        base == IF k \in DOMAIN S THEN S[k] ELSE EmptyDoc
    IN  [kk \in (DOMAIN S) \cup {k} |->
            IF kk = k THEN IncDoc(base, from, to, amount, amount, 1)
            ELSE S[kk]]

\* faulty variant: the $inc leaves txCount alone
updateSummaryOnDelete_keepsCount(S, chatId, txDate, from, to, amount) ==
    LET k == Key(chatId, getYearMonth(txDate))
    IN  IF k \in DOMAIN S
        THEN [S EXCEPT ![k] = IncDoc(@, from, to, 0 - amount, 0 - amount, 0)]
        ELSE S

\* faulty variant: the $inc leaves the receiver's totalReceived alone
updateSummaryOnDelete_sentOnly(S, chatId, txDate, from, to, amount) ==
    LET k == Key(chatId, getYearMonth(txDate))
    IN  IF k \in DOMAIN S
        THEN [S EXCEPT ![k] = IncDoc(@, from, to, 0 - amount, 0, -1)]
        ELSE S

\* faulty variant: the filter leaves out chatId, so the $inc reaches the
\* period's document of every chat
updateSummaryOnDelete_anyChat(S, chatId, txDate, from, to, amount) ==
    LET ym == getYearMonth(txDate)
    IN  [k \in DOMAIN S |->
            IF <<k[2], k[3]>> = <<ym.year, ym.month>>
            THEN IncDoc(S[k], from, to, 0 - amount, 0 - amount, -1)
            ELSE S[k]]

\* updateOne(filter, $inc) without upsert: no document, no write
updateSummaryOnDelete(S, chatId, txDate, from, to, amount) ==
    LET k == Key(chatId, getYearMonth(txDate))
    IN  IF k \in DOMAIN S
        THEN [S EXCEPT ![k] = IncDoc(@, from, to, 0 - amount, 0 - amount, -1)]
        ELSE S

\* faulty variants: the edit is always taken to stay in its month, or to keep
\* its direction
sameMonth_always(oldTx, newTx) == TRUE
sameDirection_always(oldTx, newTx) == TRUE

sameMonth(oldTx, newTx) == getYearMonth(oldTx.date) = getYearMonth(newTx.date)
sameDirection(oldTx, newTx) == oldTx.from = newTx.from /\ oldTx.to = newTx.to

\* the single $inc of the same-month, same-direction path
updateSummaryDiff(S, chatId, oldTx, newTx) ==
    LET k == Key(chatId, getYearMonth(oldTx.date))
        diff == newTx.amount - oldTx.amount
    IN  IF diff # 0 /\ k \in DOMAIN S
        THEN [S EXCEPT ![k] = IncTotals(@, oldTx.from, oldTx.to, diff)]
        ELSE S

\* updateSummaryOnEdit run to completion
updateSummaryOnEdit(S, chatId, oldTx, newTx) ==
    IF sameMonth(oldTx, newTx) /\ sameDirection(oldTx, newTx)
    THEN updateSummaryDiff(S, chatId, oldTx, newTx)
    ELSE updateSummaryOnAdd(
             updateSummaryOnDelete(S, chatId, oldTx.date, oldTx.from,
                                   oldTx.to, oldTx.amount),
             chatId, newTx.date, newTx.from, newTx.to, newTx.amount)

\* ---------------------------------------------------------------- getCarryForward
\* faulty variant: the month bound taken inclusive ($lte)
Before_inclusive(k, year, month) ==
    k[2] < year \/ (k[2] = year /\ k[3] <= month)

\* $or: [{ year: { $lt: year } }, { year: year, month: { $lt: month } }]
Before(k, year, month) ==
    k[2] < year \/ (k[2] = year /\ k[3] < month)

\* MonthlySummary.find({ chatId, $or: ... }): the keys of the documents found
priorSummaries(S, chatId, year, month) ==
    {k \in DOMAIN S : k[1] = chatId /\ Before(k, year, month)}

\* the entries of a document's members map
Entries(doc) ==
    {u \in Users : doc.members[u] # EmptyStats}

EmptyNet == [u \in {} |-> 0]

\* faulty variant: the month's net taken as sent minus received
AddMonth_sentMinusReceived(net, doc) ==
    [u \in (DOMAIN net) \cup Entries(doc) |->
        (IF u \in DOMAIN net THEN net[u] ELSE 0)
        + (IF u \in Entries(doc)
           THEN Val(doc.members[u].totalSent)
                - Val(doc.members[u].totalReceived)
           ELSE 0)]

\* the inner loop: netBalances[userId] = (netBalances[userId] || 0) + monthNet
AddMonth(net, doc) ==
    [u \in (DOMAIN net) \cup Entries(doc) |->
        (IF u \in DOMAIN net THEN net[u] ELSE 0)
        + (IF u \in Entries(doc)
           THEN Val(doc.members[u].totalReceived)
                - Val(doc.members[u].totalSent)
           ELSE 0)]

\* the outer loop over priorSummaries in .sort({ year: 1, month: 1 }) order
RECURSIVE Accumulate(_, _, _)
Accumulate(S, keys, net) ==
    IF keys = {} THEN net
    ELSE LET k == CHOOSE x \in keys :
                     \A y \in keys :
                        x[2] < y[2] \/ (x[2] = y[2] /\ x[3] <= y[3])
         IN  Accumulate(S, keys \ {k}, AddMonth(net, S[k]))

getCarryForward(S, chatId, year, month) ==
    Accumulate(S, priorSummaries(S, chatId, year, month), EmptyNet)

\* ---------------------------------------------------------------- getChatMonths, getChatStats
\* .sort({ year: -1, month: -1 })
Later(x, y) == x[2] > y[2] \/ (x[2] = y[2] /\ x[3] >= y[3])

RECURSIVE NewestFirst(_, _)
NewestFirst(S, keys) ==
    IF keys = {} THEN << >>
    ELSE LET k == CHOOSE x \in keys : \A y \in keys : Later(x, y)
         IN  <<[year |-> k[2], month |-> k[3], txCount |-> S[k].txCount]>>
                \o NewestFirst(S, keys \ {k})

\* faulty variant: no txCount filter
getChatMonths_all(S, chatId) ==
    NewestFirst(S, {k \in DOMAIN S : k[1] = chatId})

\* MonthlySummary.find({ chatId, txCount: { $gt: 0 } }), sorted, mapped
getChatMonths(S, chatId) ==
    NewestFirst(S, {k \in DOMAIN S : k[1] = chatId /\ S[k].txCount > 0})

\* x || 0 on a field that may be missing
OrZero(f) == IF f = {} THEN 0 ELSE CHOOSE x \in f : TRUE

\* membersObj?.[id] || { totalSent: 0, totalReceived: 0 }, then the entry of
\* one member in the response
memberStats(S, k, u) ==
    LET memberData == IF k \in DOMAIN S THEN S[k].members[u] ELSE EmptyStats
        totalSent == OrZero(memberData.totalSent)
        totalReceived == OrZero(memberData.totalReceived)
    IN  [totalSent |-> totalSent, totalReceived |-> totalReceived,
         net |-> totalReceived - totalSent]

\* faulty variant: only the members the summary document names are answered
getChatStats_noDefault(S, chatId, year, month) ==
    LET k == <<chatId, year, month>>
        named == IF k \in DOMAIN S
                 THEN Entries(S[k]) \cap ChatMembers[chatId] ELSE {}
    IN  [members |-> [u \in named |-> memberStats(S, k, u)],
         carryForward |-> getCarryForward(S, chatId, year, month),
         txCount |-> IF k \in DOMAIN S THEN S[k].txCount ELSE 0]

\* getChatStats for a chat that exists: MonthlySummary.findOne,
\* getCarryForward, one entry per member of the chat, summary?.txCount || 0
getChatStats(S, chatId, year, month) ==
    LET k == <<chatId, year, month>>
    IN  [members |-> [u \in ChatMembers[chatId] |-> memberStats(S, k, u)],
         carryForward |-> getCarryForward(S, chatId, year, month),
         txCount |-> IF k \in DOMAIN S THEN S[k].txCount ELSE 0]

\* ---------------------------------------------------------------- state
VARIABLES
    ledger,           \* Tx collection: function from the stored ids to documents
    nextId,           \* next fresh _id
    summaries,        \* MonthlySummary collection, keyed <<chatId, year, month>>
    lastTransaction,  \* Chat.lastTransaction per chat: {} when unset
    now,              \* wall clock
    req,              \* per request slot: handler position and local variables
    nReq,             \* requests started so far (bounded specifications)
    svc,              \* driver of the summary service called on its own
    reader,           \* a client of getTxns paging through a chat
    side              \* the notification side effect and the calls that threw

vars == <<ledger, nextId, summaries, lastTransaction, now, req, nReq, svc, reader, side>>

\* the database as one value, so that a handler step is a function on it
DB == [ledger |-> ledger, nextId |-> nextId, summaries |-> summaries,
       lastTransaction |-> lastTransaction]
SetDB(d) ==
    /\ ledger' = d.ledger
    /\ nextId' = d.nextId
    /\ summaries' = d.summaries
    /\ lastTransaction' = d.lastTransaction

NullTx == [chatId |-> "c0", amount |-> 0, date |-> 0, remarks |-> {},
           to |-> "u1", from |-> "u1", addedBy |-> "u1",
           verified |-> FALSE, verifiedBy |-> {}, verifiedAt |-> {}]
NullBody == [chatId |-> "c0", amount |-> {}, date |-> {}, remarks |-> {},
             to |-> {}, from |-> {}]
NullOld == [date |-> 0, from |-> "u1", to |-> "u1", amount |-> 0]
\* body: req.body of addtxns; txn: the document as findById returned it;
\* doc: the local document after the handler's assignments; oldTx: the
\* snapshot editTxn captures
IdleReq == [pc |-> "idle", kind |-> "none", caller |-> "u1", txnId |-> 0,
            body |-> NullBody, txn |-> NullTx, doc |-> NullTx,
            oldTx |-> NullOld, result |-> "none"]

NullArgs == [chatId |-> "c0", date |-> 0, from |-> "u1", to |-> "u1",
             amount |-> 0]
\* pc: position of the driver; n: service calls made; start: the summaries
\* before the call sequence under test; args: its arguments; newAmount: the
\* amount of newTx when the call is updateSummaryOnEdit; query, net: the
\* arguments and the result of getCarryForward
IdleSvc == [pc |-> "idle", n |-> 0, start |-> << >>, args |-> NullArgs,
            newAmount |-> 0, query |-> <<"c0", 0, 1>>, net |-> EmptyNet]

\* pc: "idle", "paging" (the last response had hasMore) or "done"; limit,
\* filter, cursor: the query of the last call; page: the txns of the last
\* response; next: its nextCursor; seen: the txns of all responses of the
\* session, in order; base: the chat's transactions when the session began;
\* first: the cursor of the session's first call
IdleReader == [pc |-> "idle", limit |-> 0, filter |-> {}, cursor |-> {},
               page |-> << >>, seen |-> << >>, base |-> {}, next |-> {},
               first |-> {}]

\* before: the summaries when the request under way began; fault: the call
\* that threw in it, "none" when none did; written: the ledger and the
\* summaries when its notification began; dispatched: the users for whom it
\* called sendPushNotification; records: Notification documents stored
IdleSide == [before |-> << >>, fault |-> "none", written |-> << >>,
             dispatched |-> {}, records |-> 0]

Init ==
    /\ ledger = << >>
    /\ nextId = 1
    /\ summaries = << >>
    /\ lastTransaction = [c \in Chats |-> {}]
    /\ now = StartNow
    /\ req = [p \in Procs |-> IdleReq]
    /\ nReq = 0
    /\ svc = IdleSvc
    /\ reader = IdleReader
    /\ side = IdleSide

\* return next(new ErrorHandler(message, status)): the request ends with an
\* error.  The error is named by what the guard tests:
\*   "NotFound"     404, no such chat or transaction
\*   "Forbidden"    403, caller is not a member / is not addedBy / verifies
\*                  an own entry
\*   "InvalidState" the transaction is verified (400 in verifyTxn, 403 in
\*                  editTxn and deleteTxn)
\*   "ClosedPeriod" 400, a date before the start of the current month
Reject(kind, caller, id, err) ==
    [IdleReq EXCEPT !.pc = "done", !.kind = kind, !.caller = caller,
                    !.txnId = id, !.result = err]

\* res.status(2xx).json(...), or next(err) from TryCatch when a store call throws
Respond(r, res) ==
    [r EXCEPT !.pc = "done", !.result = res]

Out(d, r) == {[db |-> d, r |-> r]}

\* Tx.findOne({ chatId }).sort({ date: -1 }): the candidates for the result
LatestTxns(L, chatId) ==
    {i \in DOMAIN L : /\ L[i].chatId = chatId
                      /\ \A j \in DOMAIN L :
                            L[j].chatId = chatId => L[j].date <= L[i].date}

LastOf(tx) == [amount |-> tx.amount, date |-> tx.date,
               remark |-> Str(tx.remarks)]

\* ---------------------------------------------------------------- addtxns
\* closed-month guard, Chat.findById, membership guard
addtxns_guard(d, t, caller, body) ==
    IF Val(body.date) < currentMonthStart(t)
    THEN Reject("add", caller, 0, "ClosedPeriod")
    ELSE IF body.chatId \notin Chats
    THEN Reject("add", caller, 0, "NotFound")
    ELSE IF caller \notin ChatMembers[body.chatId]
    THEN Reject("add", caller, 0, "Forbidden")
    ELSE [IdleReq EXCEPT !.pc = "a_create", !.kind = "add",
                         !.caller = caller, !.body = body]

\* Tx.create({ ..., addedBy: userId, verified: false })
addtxns_create(d, r) ==
    LET b == r.body
        new == [chatId |-> b.chatId, amount |-> Val(b.amount),
                date |-> Val(b.date), remarks |-> b.remarks,
                to |-> Str(b.to), from |-> Str(b.from),
                addedBy |-> r.caller, verified |-> FALSE,
                verifiedBy |-> {}, verifiedAt |-> {}]
    IN  Out([d EXCEPT !.ledger = [i \in (DOMAIN d.ledger) \cup {d.nextId} |->
                                    IF i = d.nextId THEN new ELSE d.ledger[i]],
                      !.nextId = @ + 1],
            [r EXCEPT !.pc = "a_summary", !.txnId = d.nextId])

\* updateSummaryOnAdd(chatId, new Date(date), from, to, amount)
addtxns_summary(d, r) ==
    LET b == r.body
    IN  Out([d EXCEPT !.summaries =
                 updateSummaryOnAdd(@, b.chatId, Val(b.date), Str(b.from),
                                    Str(b.to), Val(b.amount))],
            [r EXCEPT !.pc = "a_last"])

\* Chat.findByIdAndUpdate(chatId, { lastTransaction: {...} }), then the response
addtxns_last(d, r) ==
    LET b == r.body
    IN  Out([d EXCEPT !.lastTransaction[b.chatId] =
                 {[amount |-> Val(b.amount), date |-> Val(b.date),
                   remark |-> Str(b.remarks)]}],
            Respond(r, "ok"))

\* ---------------------------------------------------------------- verifyTxn
\* faulty variant: no check of the caller against addedBy
verifyTxn_guard_noOwnCheck(d, t, caller, id) ==
    IF id \notin DOMAIN d.ledger
    THEN Reject("verify", caller, id, "NotFound")
    ELSE LET txn == d.ledger[id]
         IN  IF txn.verified
             THEN Reject("verify", caller, id, "InvalidState")
             ELSE [IdleReq EXCEPT
                     !.pc = "v_save", !.kind = "verify", !.caller = caller,
                     !.txnId = id, !.txn = txn,
                     !.doc = [txn EXCEPT !.verified = TRUE,
                                         !.verifiedBy = {caller},
                                         !.verifiedAt = {t}]]

\* faulty variant: the verified check placed before the addedBy check
verifyTxn_guard_verifiedFirst(d, t, caller, id) ==
    IF id \notin DOMAIN d.ledger
    THEN Reject("verify", caller, id, "NotFound")
    ELSE LET txn == d.ledger[id]
         IN  IF txn.verified
             THEN Reject("verify", caller, id, "InvalidState")
             ELSE IF txn.addedBy = caller
             THEN Reject("verify", caller, id, "Forbidden")
             ELSE [IdleReq EXCEPT
                     !.pc = "v_save", !.kind = "verify", !.caller = caller,
                     !.txnId = id, !.txn = txn,
                     !.doc = [txn EXCEPT !.verified = TRUE,
                                         !.verifiedBy = {caller},
                                         !.verifiedAt = {t}]]

\* faulty variant: verifyTxn applies the closed-month guard of editTxn
verifyTxn_guard_closedMonthCheck(d, t, caller, id) ==
    IF id \notin DOMAIN d.ledger
    THEN Reject("verify", caller, id, "NotFound")
    ELSE LET txn == d.ledger[id]
         IN  IF txn.addedBy = caller
             THEN Reject("verify", caller, id, "Forbidden")
             ELSE IF txn.verified
             THEN Reject("verify", caller, id, "InvalidState")
             ELSE IF txn.date < currentMonthStart(t)
             THEN Reject("verify", caller, id, "ClosedPeriod")
             ELSE [IdleReq EXCEPT
                     !.pc = "v_save", !.kind = "verify", !.caller = caller,
                     !.txnId = id, !.txn = txn,
                     !.doc = [txn EXCEPT !.verified = TRUE,
                                         !.verifiedBy = {caller},
                                         !.verifiedAt = {t}]]

\* Tx.findById, the two guards, the assignments to the local document
verifyTxn_guard(d, t, caller, id) ==
    IF id \notin DOMAIN d.ledger
    THEN Reject("verify", caller, id, "NotFound")
    ELSE LET txn == d.ledger[id]
         IN  IF txn.addedBy = caller
             THEN Reject("verify", caller, id, "Forbidden")
             ELSE IF txn.verified
             THEN Reject("verify", caller, id, "InvalidState")
             ELSE [IdleReq EXCEPT
                     !.pc = "v_save", !.kind = "verify", !.caller = caller,
                     !.txnId = id, !.txn = txn,
                     !.doc = [txn EXCEPT !.verified = TRUE,
                                         !.verifiedBy = {caller},
                                         !.verifiedAt = {t}]]

\* faulty variant: save() writes the whole local document
verifyTxn_save_wholeDocument(d, r) ==
    IF r.txnId \in DOMAIN d.ledger
    THEN Out([d EXCEPT !.ledger[r.txnId] = r.doc], Respond(r, "ok"))
    ELSE Out(d, Respond(r, "error"))

\* txn.save(): $set of the modified paths on the stored document; a document
\* that is gone makes save() throw
verifyTxn_save(d, r) ==
    IF r.txnId \in DOMAIN d.ledger
    THEN Out([d EXCEPT !.ledger[r.txnId].verified = r.doc.verified,
                       !.ledger[r.txnId].verifiedBy = r.doc.verifiedBy,
                       !.ledger[r.txnId].verifiedAt = r.doc.verifiedAt],
             Respond(r, "ok"))
    ELSE Out(d, Respond(r, "error"))

\* ---------------------------------------------------------------- editTxn
\* faulty variant: no check of the date the body names
editTxn_guard_noNewDateCheck(d, t, caller, id, body) ==
    IF id \notin DOMAIN d.ledger
    THEN Reject("edit", caller, id, "NotFound")
    ELSE LET txn == d.ledger[id]
             start == currentMonthStart(t)
         IN  IF txn.addedBy # caller
             THEN Reject("edit", caller, id, "Forbidden")
             ELSE IF txn.verified
             THEN Reject("edit", caller, id, "InvalidState")
             ELSE IF txn.date < start
             THEN Reject("edit", caller, id, "ClosedPeriod")
             ELSE [IdleReq EXCEPT
                     !.pc = "e_save", !.kind = "edit", !.caller = caller,
                     !.txnId = id, !.txn = txn,
                     !.oldTx = [date |-> txn.date, from |-> txn.from,
                                to |-> txn.to, amount |-> txn.amount],
                     !.doc = [txn EXCEPT
                        !.amount = OrElse(body.amount, @),
                        !.date = OrElse(body.date, @),
                        !.remarks = IF body.remarks = {} THEN @
                                    ELSE body.remarks,
                        !.to = OrElse(body.to, @),
                        !.from = OrElse(body.from, @)]]

\* Tx.findById, the guards, the oldTx snapshot, the field assignments
editTxn_guard(d, t, caller, id, body) ==
    IF id \notin DOMAIN d.ledger
    THEN Reject("edit", caller, id, "NotFound")
    ELSE LET txn == d.ledger[id]
             start == currentMonthStart(t)
         IN  IF txn.addedBy # caller
             THEN Reject("edit", caller, id, "Forbidden")
             ELSE IF txn.verified
             THEN Reject("edit", caller, id, "InvalidState")
             ELSE IF body.date # {} /\ Val(body.date) < start
             THEN Reject("edit", caller, id, "ClosedPeriod")
             ELSE IF txn.date < start
             THEN Reject("edit", caller, id, "ClosedPeriod")
             ELSE [IdleReq EXCEPT
                     !.pc = "e_save", !.kind = "edit", !.caller = caller,
                     !.txnId = id, !.txn = txn,
                     !.oldTx = [date |-> txn.date, from |-> txn.from,
                                to |-> txn.to, amount |-> txn.amount],
                     !.doc = [txn EXCEPT
                        !.amount = OrElse(body.amount, @),
                        !.date = OrElse(body.date, @),
                        !.remarks = IF body.remarks = {} THEN @
                                    ELSE body.remarks,
                        !.to = OrElse(body.to, @),
                        !.from = OrElse(body.from, @)]]

\* a path is written by save() when the assignment changed its local value
Modified(r, f) == r.doc[f] # r.txn[f]

\* txn.save(): $set of the modified paths on the stored document
SaveEdit(stored, r) ==
    [stored EXCEPT
       !.amount = IF Modified(r, "amount") THEN r.doc.amount ELSE @,
       !.date = IF Modified(r, "date") THEN r.doc.date ELSE @,
       !.remarks = IF Modified(r, "remarks") THEN r.doc.remarks ELSE @,
       !.to = IF Modified(r, "to") THEN r.doc.to ELSE @,
       !.from = IF Modified(r, "from") THEN r.doc.from ELSE @]

\* txSchema: amount { min: 0 }, validated by save() when the path is modified
MinAmount(amount) == amount >= 0

\* faulty variant: a closed-month guard that runs after the save
editTxn_save_thenGuard(d, r) ==
    IF r.txnId \in DOMAIN d.ledger
    THEN Out([d EXCEPT !.ledger[r.txnId] = SaveEdit(@, r)],
             IF r.doc.date > r.txn.date
             THEN Respond(r, "ClosedPeriod")
             ELSE [r EXCEPT !.pc = "e_summary"])
    ELSE Out(d, Respond(r, "error"))

editTxn_save(d, r) ==
    IF Modified(r, "amount") /\ ~MinAmount(r.doc.amount)
    THEN Out(d, Respond(r, "error"))
    ELSE IF r.txnId \in DOMAIN d.ledger
    THEN Out([d EXCEPT !.ledger[r.txnId] = SaveEdit(@, r)],
             [r EXCEPT !.pc = "e_summary"])
    ELSE Out(d, Respond(r, "error"))

NewOf(r) == [date |-> r.doc.date, from |-> r.doc.from, to |-> r.doc.to,
             amount |-> r.doc.amount]

\* which branch updateSummaryOnEdit takes
\* faulty variant: every edit takes the single $inc path
SinglePath_always(r) == TRUE

SinglePath(r) == sameMonth(r.oldTx, NewOf(r)) /\ sameDirection(r.oldTx, NewOf(r))

\* updateSummaryOnEdit, sameMonth && sameDirection: one $inc, or none
editTxn_summaryDiff(d, r) ==
    Out([d EXCEPT !.summaries =
             updateSummaryDiff(@, r.doc.chatId, r.oldTx, NewOf(r))],
        [r EXCEPT !.pc = "e_last"])

\* faulty variant: the first await applies the new values
editTxn_summaryDelete_appliesNew(d, r) ==
    Out([d EXCEPT !.summaries =
             updateSummaryOnAdd(@, r.doc.chatId, r.doc.date, r.doc.from,
                                r.doc.to, r.doc.amount)],
        [r EXCEPT !.pc = "e_summary_add"])

\* updateSummaryOnEdit, else branch, first await: reverse the old values
editTxn_summaryDelete(d, r) ==
    Out([d EXCEPT !.summaries =
             updateSummaryOnDelete(@, r.doc.chatId, r.oldTx.date,
                                   r.oldTx.from, r.oldTx.to, r.oldTx.amount)],
        [r EXCEPT !.pc = "e_summary_add"])

\* updateSummaryOnEdit, else branch, second await: apply the new values
editTxn_summaryAdd(d, r) ==
    Out([d EXCEPT !.summaries =
             updateSummaryOnAdd(@, r.doc.chatId, r.doc.date, r.doc.from,
                                r.doc.to, r.doc.amount)],
        [r EXCEPT !.pc = "e_last"])

\* Chat.findById(...).select("lastTransaction"); when it has a date,
\* Tx.findOne latest and Chat.findByIdAndUpdate; then the response
editTxn_last(d, r) ==
    LET c == r.doc.chatId
    IN  IF c \in Chats /\ d.lastTransaction[c] # {}
           /\ LatestTxns(d.ledger, c) # {}
        THEN {[db |-> [d EXCEPT !.lastTransaction[c] = {LastOf(d.ledger[i])}],
               r |-> Respond(r, "ok")] : i \in LatestTxns(d.ledger, c)}
        ELSE Out(d, Respond(r, "ok"))

\* ---------------------------------------------------------------- deleteTxn
deleteTxn_guard_noOwnerCheck(d, t, caller, id) ==
    IF id \notin DOMAIN d.ledger
    THEN Reject("delete", caller, id, "NotFound")
    ELSE LET txn == d.ledger[id]
         IN  IF txn.verified
             THEN Reject("delete", caller, id, "InvalidState")
             ELSE [IdleReq EXCEPT !.pc = "d_summary", !.kind = "delete",
                                  !.caller = caller, !.txnId = id,
                                  !.txn = txn]

\* Tx.findById and the two guards (owner, verified)
deleteTxn_guard(d, t, caller, id) ==
    IF id \notin DOMAIN d.ledger
    THEN Reject("delete", caller, id, "NotFound")
    ELSE LET txn == d.ledger[id]
         IN  IF txn.addedBy # caller
             THEN Reject("delete", caller, id, "Forbidden")
             ELSE IF txn.verified
             THEN Reject("delete", caller, id, "InvalidState")
             ELSE [IdleReq EXCEPT !.pc = "d_summary", !.kind = "delete",
                                  !.caller = caller, !.txnId = id,
                                  !.txn = txn]

\* updateSummaryOnDelete(chatId, txn.date, txn.from, txn.to, txn.amount)
deleteTxn_summary(d, r) ==
    Out([d EXCEPT !.summaries =
             updateSummaryOnDelete(@, r.txn.chatId, r.txn.date, r.txn.from,
                                   r.txn.to, r.txn.amount)],
        [r EXCEPT !.pc = "d_remove"])

\* Tx.findByIdAndDelete(txnId): no error when the document is already gone
deleteTxn_remove(d, r) ==
    Out([d EXCEPT !.ledger = [i \in (DOMAIN d.ledger) \ {r.txnId} |->
                                 d.ledger[i]]],
        [r EXCEPT !.pc = "d_last"])

\* Tx.findOne latest, then Chat.findByIdAndUpdate: set or $unset
deleteTxn_last(d, r) ==
    LET c == r.txn.chatId
    IN  IF LatestTxns(d.ledger, c) # {}
        THEN {[db |-> [d EXCEPT !.lastTransaction[c] = {LastOf(d.ledger[i])}],
               r |-> Respond(r, "ok")] : i \in LatestTxns(d.ledger, c)}
        ELSE Out([d EXCEPT !.lastTransaction[c] = {}], Respond(r, "ok"))

\* ---------------------------------------------------------------- handlers
\* the next store step of a request that is under way
StepOf(d, r) ==
    CASE r.pc = "a_create" -> addtxns_create(d, r)
      [] r.pc = "a_summary" -> addtxns_summary(d, r)
      [] r.pc = "a_last" -> addtxns_last(d, r)
      [] r.pc = "v_save" -> verifyTxn_save(d, r)
      [] r.pc = "e_save" -> editTxn_save(d, r)
      [] r.pc = "e_summary" /\ SinglePath(r) -> editTxn_summaryDiff(d, r)
      [] r.pc = "e_summary" /\ ~SinglePath(r) -> editTxn_summaryDelete(d, r)
      [] r.pc = "e_summary_add" -> editTxn_summaryAdd(d, r)
      [] r.pc = "e_last" -> editTxn_last(d, r)
      [] r.pc = "d_summary" -> deleteTxn_summary(d, r)
      [] r.pc = "d_remove" -> deleteTxn_remove(d, r)
      [] r.pc = "d_last" -> deleteTxn_last(d, r)

\* a handler run from its first await to its response, nothing interleaved
RECURSIVE Run(_, _)
Run(d, r) ==
    IF r.pc = "done" THEN Out(d, r)
    ELSE UNION {Run(o.db, o.r) : o \in StepOf(d, r)}

addtxns(d, t, caller, body) == Run(d, addtxns_guard(d, t, caller, body))
verifyTxn(d, t, caller, id) == Run(d, verifyTxn_guard(d, t, caller, id))
editTxn(d, t, caller, id, body) == Run(d, editTxn_guard(d, t, caller, id, body))
deleteTxn(d, t, caller, id) == Run(d, deleteTxn_guard(d, t, caller, id))

\* ---------------------------------------------------------------- inputs
Directions == {<<"u1", "u2">>, <<"u2", "u1">>}
AddBodies ==
    {[chatId |-> c, amount |-> {a}, date |-> {dt}, remarks |-> {},
      from |-> {dir[1]}, to |-> {dir[2]}] :
        c \in ChatIds, a \in Amounts, dt \in Dates, dir \in Directions}
EditBodies ==
    {[chatId |-> "c0", amount |-> a, date |-> dt, remarks |-> rm,
      from |-> ft[1], to |-> ft[2]] :
        a \in {{}} \cup {{x} : x \in Amounts},
        dt \in {{}} \cup {{x} : x \in Dates},
        rm \in {{}},
        ft \in {<<{}, {}>>} \cup {<<{dir[1]}, {dir[2]}>> : dir \in Directions}}

\* ---------------------------------------------------------------- requests run one at a time
\* what is kept of the last successful request; a rejected request leaves
\* the record as it was
Brief(r) ==
    [IdleReq EXCEPT !.pc = "done", !.kind = r.kind, !.txnId = r.txnId,
                    !.result = r.result]

ApplySeq(outs) ==
    \E o \in outs :
       /\ SetDB(o.db)
       /\ req' = [req EXCEPT ![1] = IF o.r.result = "ok" THEN Brief(o.r) ELSE @]

Add(caller, body) ==
    /\ nextId <= MaxTx
    /\ ApplySeq(addtxns(DB, now, caller, body))
    /\ UNCHANGED <<now, nReq, svc, reader, side>>

Verify(caller, id) ==
    /\ ApplySeq(verifyTxn(DB, now, caller, id))
    /\ UNCHANGED <<now, nReq, svc, reader, side>>

Edit(caller, id, body) ==
    /\ ApplySeq(editTxn(DB, now, caller, id, body))
    /\ UNCHANGED <<now, nReq, svc, reader, side>>

Delete(caller, id) ==
    /\ ApplySeq(deleteTxn(DB, now, caller, id))
    /\ UNCHANGED <<now, nReq, svc, reader, side>>

\* the calendar month rolls over
Tick ==
    /\ MonthIdx(now) < MonthIdx(StartNow) + MaxTicks
    /\ now' = currentMonthStart(now) + UnitsPerMonth
    /\ UNCHANGED <<ledger, nextId, summaries, lastTransaction, req, nReq, svc, reader, side>>

\* by the symmetry of the members, "u1" adds; "u2" is the other member and
\* "u3" is no member of the chat
NextSeq ==
    \/ \E b \in AddBodies : Add("u1", b)
    \/ \E c \in {"u1", "u2"}, i \in TxIds : Verify(c, i)
    \/ \E i \in TxIds, b \in EditBodies : Edit("u1", i, b)
    \/ \E i \in TxIds : Delete("u1", i)
    \/ Tick

SpecSeq == Init /\ [][NextSeq]_vars

\* ---------------------------------------------------------------- store steps
ApplyStep(p, outs) ==
    \E o \in outs : SetDB(o.db) /\ req' = [req EXCEPT ![p] = o.r]

\* a request starts in the first free slot
FreeSlot(p) ==
    /\ req[p].pc = "idle"
    /\ \A q \in Procs : q < p => req[q].pc # "idle"
    /\ nReq < MaxReq
    /\ nReq' = nReq + 1

PendingAdds == Cardinality({q \in Procs : req[q].pc = "a_create"})

AddStart(p, caller, body) ==
    /\ FreeSlot(p)
    /\ nextId + PendingAdds <= MaxTx
    /\ req' = [req EXCEPT ![p] = addtxns_guard(DB, now, caller, body)]
    /\ UNCHANGED <<ledger, nextId, summaries, lastTransaction, now, svc, reader, side>>

VerifyStart(p, caller, id) ==
    /\ FreeSlot(p)
    /\ req' = [req EXCEPT ![p] = verifyTxn_guard(DB, now, caller, id)]
    /\ UNCHANGED <<ledger, nextId, summaries, lastTransaction, now, svc, reader, side>>

EditStart(p, caller, id, body) ==
    /\ FreeSlot(p)
    /\ req' = [req EXCEPT ![p] = editTxn_guard(DB, now, caller, id, body)]
    /\ UNCHANGED <<ledger, nextId, summaries, lastTransaction, now, svc, reader, side>>

DeleteStart(p, caller, id) ==
    /\ FreeSlot(p)
    /\ req' = [req EXCEPT ![p] = deleteTxn_guard(DB, now, caller, id)]
    /\ UNCHANGED <<ledger, nextId, summaries, lastTransaction, now, svc, reader, side>>

At(p, pc) == req[p].pc = pc

AddCreate(p) ==
    At(p, "a_create") /\ ApplyStep(p, addtxns_create(DB, req[p]))
    /\ UNCHANGED <<now, nReq, svc, reader, side>>
AddSummary(p) ==
    At(p, "a_summary") /\ ApplyStep(p, addtxns_summary(DB, req[p]))
    /\ UNCHANGED <<now, nReq, svc, reader, side>>
AddLast(p) ==
    At(p, "a_last") /\ ApplyStep(p, addtxns_last(DB, req[p]))
    /\ UNCHANGED <<now, nReq, svc, reader, side>>
VerifySave(p) ==
    At(p, "v_save") /\ ApplyStep(p, verifyTxn_save(DB, req[p]))
    /\ UNCHANGED <<now, nReq, svc, reader, side>>
EditSave(p) ==
    At(p, "e_save") /\ ApplyStep(p, editTxn_save(DB, req[p]))
    /\ UNCHANGED <<now, nReq, svc, reader, side>>
EditSummaryDiff(p) ==
    At(p, "e_summary") /\ SinglePath(req[p])
    /\ ApplyStep(p, editTxn_summaryDiff(DB, req[p]))
    /\ UNCHANGED <<now, nReq, svc, reader, side>>
EditSummaryDelete(p) ==
    At(p, "e_summary") /\ ~SinglePath(req[p])
    /\ ApplyStep(p, editTxn_summaryDelete(DB, req[p]))
    /\ UNCHANGED <<now, nReq, svc, reader, side>>
EditSummaryAdd(p) ==
    At(p, "e_summary_add") /\ ApplyStep(p, editTxn_summaryAdd(DB, req[p]))
    /\ UNCHANGED <<now, nReq, svc, reader, side>>
EditLast(p) ==
    At(p, "e_last") /\ ApplyStep(p, editTxn_last(DB, req[p]))
    /\ UNCHANGED <<now, nReq, svc, reader, side>>
DeleteSummary(p) ==
    At(p, "d_summary") /\ ApplyStep(p, deleteTxn_summary(DB, req[p]))
    /\ UNCHANGED <<now, nReq, svc, reader, side>>
DeleteRemove(p) ==
    At(p, "d_remove") /\ ApplyStep(p, deleteTxn_remove(DB, req[p]))
    /\ UNCHANGED <<now, nReq, svc, reader, side>>
DeleteLast(p) ==
    At(p, "d_last") /\ ApplyStep(p, deleteTxn_last(DB, req[p]))
    /\ UNCHANGED <<now, nReq, svc, reader, side>>

\* the response has been sent: the slot is free again
Finish(p) ==
    /\ At(p, "done")
    /\ req' = [req EXCEPT ![p] = IdleReq]
    /\ UNCHANGED <<ledger, nextId, summaries, lastTransaction, now, nReq, svc, reader, side>>

AllIdle == \A q \in Procs : req[q].pc = "idle"

\* requests run one at a time, observed after every store step
NextStep ==
    \/ \E c \in Users, b \in AddBodies : AllIdle /\ AddStart(1, c, b)
    \/ \E c \in Users, i \in TxIds : AllIdle /\ VerifyStart(1, c, i)
    \/ \E c \in Users, i \in TxIds, b \in EditBodies :
          AllIdle /\ EditStart(1, c, i, b)
    \/ \E c \in Users, i \in TxIds : AllIdle /\ DeleteStart(1, c, i)
    \/ AddCreate(1) \/ AddSummary(1) \/ AddLast(1)
    \/ VerifySave(1)
    \/ EditSave(1) \/ EditSummaryDiff(1) \/ EditSummaryDelete(1)
    \/ EditSummaryAdd(1) \/ EditLast(1)
    \/ DeleteSummary(1) \/ DeleteRemove(1) \/ DeleteLast(1)
    \/ Finish(1)
    \/ Tick

SpecStep == Init /\ [][NextStep]_vars

\* requests overlap: every interleaving of their store steps. The clock
\* stands still, so requests name open dates only; "u1" adds, edits and
\* deletes, any user verifies
OpenBodies(B) == {b \in B : b.date = {} \/ Val(b.date) >= StartNow}
Next ==
    \/ \E p \in Procs, b \in OpenBodies(AddBodies) :
          b.chatId \in Chats /\ AddStart(p, "u1", b)
    \/ \E p \in Procs, c \in Users, i \in TxIds : VerifyStart(p, c, i)
    \/ \E p \in Procs, i \in TxIds, b \in OpenBodies(EditBodies) :
          EditStart(p, "u1", i, b)
    \/ \E p \in Procs, i \in TxIds : DeleteStart(p, "u1", i)
    \/ \E p \in Procs : AddCreate(p)
    \/ \E p \in Procs : AddSummary(p)
    \/ \E p \in Procs : AddLast(p)
    \/ \E p \in Procs : VerifySave(p)
    \/ \E p \in Procs : EditSave(p)
    \/ \E p \in Procs : EditSummaryDiff(p)
    \/ \E p \in Procs : EditSummaryDelete(p)
    \/ \E p \in Procs : EditSummaryAdd(p)
    \/ \E p \in Procs : EditLast(p)
    \/ \E p \in Procs : DeleteSummary(p)
    \/ \E p \in Procs : DeleteRemove(p)
    \/ \E p \in Procs : DeleteLast(p)
    \/ \E p \in Procs : Finish(p)

Spec == Init /\ [][Next]_vars

\* requests overlap, but no two requests in flight are about the same
\* transaction: an edit or delete starts only when no unfinished request has
\* created or read its transaction. Adds may also run alone, to completion.
MaxOtherReq == 2        \* overlapping requests started in this specification
Untargeted(i) ==
    /\ nReq < MaxOtherReq
    /\ \A q \in Procs : req[q].pc \in {"idle", "done"} \/ req[q].txnId # i

NextOther ==
    \/ \E b \in OpenBodies(AddBodies) :
          b.chatId \in Chats /\ AllIdle /\ Add("u1", b)
    \/ \E p \in Procs, b \in OpenBodies(AddBodies) :
          b.chatId \in Chats /\ nReq < MaxOtherReq /\ AddStart(p, "u1", b)
    \/ \E p \in Procs, i \in TxIds, b \in OpenBodies(EditBodies) :
          Untargeted(i) /\ EditStart(p, "u1", i, b)
    \/ \E p \in Procs, i \in TxIds : Untargeted(i) /\ DeleteStart(p, "u1", i)
    \/ \E p \in Procs : AddCreate(p)
    \/ \E p \in Procs : AddSummary(p)
    \/ \E p \in Procs : AddLast(p)
    \/ \E p \in Procs : EditSave(p)
    \/ \E p \in Procs : EditSummaryDiff(p)
    \/ \E p \in Procs : EditSummaryDelete(p)
    \/ \E p \in Procs : EditSummaryAdd(p)
    \/ \E p \in Procs : EditLast(p)
    \/ \E p \in Procs : DeleteSummary(p)
    \/ \E p \in Procs : DeleteRemove(p)
    \/ \E p \in Procs : DeleteLast(p)
    \/ \E p \in Procs : Finish(p)

SpecOther == Init /\ [][NextOther]_vars

\* two requests overlap, both about the same transaction; every transaction
\* was added before them, by a request that ran alone, to completion
MaxSameReq == 2         \* overlapping requests started in this specification
Targeted(i) ==
    /\ nReq < MaxSameReq
    /\ \A q \in Procs : req[q].kind \in {"edit", "delete"} => req[q].txnId = i

NextSame ==
    \/ \E b \in OpenBodies(AddBodies) :
          b.chatId \in Chats /\ AllIdle /\ nReq = 0 /\ Add("u1", b)
    \/ \E p \in Procs, i \in TxIds, b \in OpenBodies(EditBodies) :
          Targeted(i) /\ EditStart(p, "u1", i, b)
    \/ \E p \in Procs, i \in TxIds : Targeted(i) /\ DeleteStart(p, "u1", i)
    \/ \E p \in Procs : EditSave(p)
    \/ \E p \in Procs : EditSummaryDiff(p)
    \/ \E p \in Procs : EditSummaryDelete(p)
    \/ \E p \in Procs : EditSummaryAdd(p)
    \/ \E p \in Procs : EditLast(p)
    \/ \E p \in Procs : DeleteSummary(p)
    \/ \E p \in Procs : DeleteRemove(p)
    \/ \E p \in Procs : DeleteLast(p)
    \/ \E p \in Procs : Finish(p)

SpecSame == Init /\ [][NextSame]_vars

\* add requests only, overlapping
NextAdds ==
    \/ \E p \in Procs, b \in OpenBodies(AddBodies) :
          b.chatId \in Chats /\ AddStart(p, "u1", b)
    \/ \E p \in Procs : AddCreate(p)
    \/ \E p \in Procs : AddSummary(p)
    \/ \E p \in Procs : AddLast(p)
    \/ \E p \in Procs : Finish(p)

SpecAdds == Init /\ [][NextAdds]_vars

\* ---------------------------------------------------------------- the summary service on its own
SvcChats == {"c1", "c2"}
SvcPairs == {<<"u1", "u2">>, <<"u2", "u1">>, <<"u1", "u1">>}
SvcArgs ==
    {[chatId |-> c, date |-> dt, from |-> ft[1], to |-> ft[2], amount |-> a] :
        c \in SvcChats, dt \in {x \in Dates : x >= StartNow},
        ft \in SvcPairs, a \in Amounts}
SvcKeys == {Key(c, getYearMonth(dt)) : c \in SvcChats, dt \in Dates}

SvcFrame ==
    UNCHANGED <<ledger, nextId, lastTransaction, now, req, nReq, reader, side>>

\* any call of the service, to reach the summaries a call sequence starts from
SvcAdd(a) ==
    /\ svc.pc = "idle" /\ svc.n < MaxSvcCalls
    /\ summaries' = updateSummaryOnAdd(summaries, a.chatId, a.date, a.from,
                                        a.to, a.amount)
    /\ svc' = [svc EXCEPT !.n = @ + 1]
    /\ SvcFrame

SvcDelete(a) ==
    /\ svc.pc = "idle" /\ svc.n < MaxSvcCalls
    /\ summaries' = updateSummaryOnDelete(summaries, a.chatId, a.date, a.from,
                                           a.to, a.amount)
    /\ svc' = [svc EXCEPT !.n = @ + 1]
    /\ SvcFrame

\* updateSummaryOnAdd(args) ...
RoundTripAdd(a) ==
    /\ svc.pc = "idle"
    /\ summaries' = updateSummaryOnAdd(summaries, a.chatId, a.date, a.from,
                                        a.to, a.amount)
    /\ svc' = [svc EXCEPT !.pc = "added", !.start = summaries, !.args = a]
    /\ SvcFrame

\* ... followed immediately by updateSummaryOnDelete(args)
RoundTripDelete ==
    /\ svc.pc = "added"
    /\ LET a == svc.args
       IN  summaries' = updateSummaryOnDelete(summaries, a.chatId, a.date,
                                              a.from, a.to, a.amount)
    /\ svc' = [svc EXCEPT !.pc = "roundtrip"]
    /\ SvcFrame

SvcOld(a) == [date |-> a.date, from |-> a.from, to |-> a.to,
              amount |-> a.amount]

\* updateSummaryOnEdit(chatId, oldTx, newTx) with newTx = oldTx but the amount
EditAmount(a, n) ==
    /\ svc.pc = "idle"
    /\ summaries' = updateSummaryOnEdit(summaries, a.chatId, SvcOld(a),
                                         [SvcOld(a) EXCEPT !.amount = n])
    /\ svc' = [svc EXCEPT !.pc = "edited", !.start = summaries, !.args = a,
                          !.newAmount = n]
    /\ SvcFrame

\* the (year, month) pairs a reader may ask for: every month of the model
\* and the one after
QueryPeriods ==
    {getYearMonth(m * UnitsPerMonth) : m \in FirstMonth .. (LastMonth + 1)}

\* getCarryForward(chatId, year, month)
CarryForward(c, ym) ==
    /\ svc.pc = "idle"
    /\ svc' = [svc EXCEPT
                 !.pc = "carried", !.query = <<c, ym.year, ym.month>>,
                 !.net = getCarryForward(summaries, c, ym.year, ym.month)]
    /\ UNCHANGED summaries
    /\ SvcFrame

NextSvc ==
    \/ \E c \in SvcChats, ym \in QueryPeriods : CarryForward(c, ym)
    \/ \E a \in SvcArgs, n \in Amounts : EditAmount(a, n)
    \/ \E a \in SvcArgs : SvcAdd(a)
    \/ \E a \in SvcArgs : SvcDelete(a)
    \/ \E a \in SvcArgs : RoundTripAdd(a)
    \/ RoundTripDelete

SpecSvc == Init /\ [][NextSvc]_vars

\* ---------------------------------------------------------------- backfillSummaries
\* the server's local time is UTC + tz units; the dates of the model are
\* local times, as getYearMonth reads them
TimeZones == {0, 1}
\* { $year: "$date" }, { $month: "$date" }: year and month of the UTC time
utcYearMonth(date, tz) == getYearMonth(date - tz)

\* txCount: { $sum: 1 }
groupCount(L, I) == Cardinality(I)

\* if (!members[id]) members[id] = { totalSent: 0, totalReceived: 0 }
ensureMember(members, u) ==
    IF members[u] = EmptyStats
    THEN [members EXCEPT ![u] = [totalSent |-> {0}, totalReceived |-> {0}]]
    ELSE members

\* for (const txn of group.txns) { ... += txn.amount }
RECURSIVE buildMembers(_, _, _)
buildMembers(L, I, members) ==
    IF I = {} THEN members
    ELSE LET i == CHOOSE x \in I : TRUE
             m0 == ensureMember(ensureMember(members, L[i].from), L[i].to)
             m1 == [m0 EXCEPT ![L[i].from].totalSent = Inc(@, L[i].amount)]
             m2 == [m1 EXCEPT ![L[i].to].totalReceived = Inc(@, L[i].amount)]
         IN  buildMembers(L, I \ {i}, m2)

\* MonthlySummary.deleteMany({}), Tx.aggregate($group by chatId, $year,
\* $month), MonthlySummary.create per group
backfill(L, tz) ==
    LET groupOf(i) == Key(L[i].chatId, utcYearMonth(L[i].date, tz))
        groups == {groupOf(i) : i \in DOMAIN L}
        txns(k) == {i \in DOMAIN L : groupOf(i) = k}
    IN  [k \in groups |->
            [members |-> buildMembers(L, txns(k), EmptyDoc.members),
             txCount |-> groupCount(L, txns(k))]]

\* the script runs once, between requests
Backfill(tz) ==
    /\ svc.pc = "idle"
    /\ summaries' = backfill(ledger, tz)
    /\ svc' = [svc EXCEPT !.pc = "backfilled", !.start = summaries]
    /\ UNCHANGED <<ledger, nextId, lastTransaction, now, req, nReq, reader, side>>

\* a one-at-a-time run of requests, followed up to the end of the script
NotBackfilled == svc.pc = "idle"

NextBackfill ==
    \/ NotBackfilled /\ \E b \in AddBodies : Add("u1", b)
    \/ NotBackfilled /\ \E c \in {"u1", "u2"}, i \in TxIds : Verify(c, i)
    \/ NotBackfilled /\ \E i \in TxIds, b \in EditBodies : Edit("u1", i, b)
    \/ NotBackfilled /\ \E i \in TxIds : Delete("u1", i)
    \/ NotBackfilled /\ Tick
    \/ \E tz \in TimeZones : Backfill(tz)

SpecBackfill == Init /\ [][NextBackfill]_vars

\* ---------------------------------------------------------------- getTxns
MaxPageTx == 3          \* transactions ever created in the paging specification
MaxLimit == 2           \* page sizes a reader asks for are 1..MaxLimit

\* new Date(year, month - 1, 1) and new Date(year, month, 1)
monthStart(ym) == ((ym.year * MonthsPerYear) + ym.month - 1) * UnitsPerMonth
monthEnd(ym) == ((ym.year * MonthsPerYear) + ym.month) * UnitsPerMonth

\* query.date: the month filter, then the cursor assigned to $lt.  filter is
\* {} unless year and month are both given (years are counted from a base
\* year, none is falsy); cursor is {} when absent
QueryDate(filter, cursor) ==
    LET month == IF filter # {}
                 THEN [gte |-> {monthStart(Val(filter))},
                       lt |-> {monthEnd(Val(filter))}]
                 ELSE [gte |-> {}, lt |-> {}]
    IN  IF cursor # {} THEN [month EXCEPT !.lt = cursor] ELSE month

\* Tx.find(query)
Matching(L, chatId, q) ==
    {i \in DOMAIN L :
        /\ L[i].chatId = chatId
        /\ q.gte = {} \/ L[i].date >= Val(q.gte)
        /\ q.lt = {} \/ L[i].date < Val(q.lt)}

\* .sort({ date: -1, _id: -1 })
RECURSIVE SortDesc(_, _)
SortDesc(L, I) ==
    IF I = {} THEN << >>
    ELSE LET i == CHOOSE x \in I :
                     \A y \in I : \/ L[y].date < L[x].date
                                  \/ (L[y].date = L[x].date /\ y <= x)
         IN  <<i>> \o SortDesc(L, I \ {i})

\* .limit(n)
Take(q, n) == SubSeq(q, 1, IF Len(q) < n THEN Len(q) ELSE n)

\* faulty variant: fetches limit documents, not limit + 1
getTxns_noExtra(L, chatId, cursor, limit, filter) ==
    LET found == Take(SortDesc(L, Matching(L, chatId,
                                           QueryDate(filter, cursor))),
                      limit)
        hasMore == Len(found) > limit
    IN  [txns |-> found, nextCursor |-> {}, hasMore |-> hasMore]

\* the response of getTxns; the cursor is the ISO string of a Date, which
\* new Date(cursor) reads back to the same instant
getTxns(L, chatId, cursor, limit, filter) ==
    LET found == Take(SortDesc(L, Matching(L, chatId,
                                           QueryDate(filter, cursor))),
                      limit + 1)
        hasMore == Len(found) > limit
        txns == IF hasMore THEN SubSeq(found, 1, Len(found) - 1) ELSE found
    IN  [txns |-> txns,
         nextCursor |-> IF hasMore /\ Len(txns) > 0
                        THEN {L[txns[Len(txns)]].date} ELSE {},
         hasMore |-> hasMore]

Limits == 1 .. MaxLimit
Filters == {{}} \cup {{ym} : ym \in QueryPeriods}
Cursors == {{}} \cup {{d} : d \in Dates \cup {(LastMonth + 1) * UnitsPerMonth}}

PageFrame == UNCHANGED <<now, req, nReq, svc, side>>

\* a completed addtxns before the reader starts
PageAdd(b) ==
    /\ reader.pc = "idle" /\ nextId <= MaxPageTx
    /\ \E o \in addtxns(DB, now, "u1", b) : SetDB(o.db)
    /\ UNCHANGED reader
    /\ PageFrame

\* a completed addtxns between two fetches, dated before the reader's cursor
InsertOlder(b) ==
    /\ reader.pc = "paging" /\ nextId <= MaxPageTx
    /\ Val(b.date) < Val(reader.next)
    /\ \E o \in addtxns(DB, now, "u1", b) : SetDB(o.db)
    /\ UNCHANGED reader
    /\ PageFrame

Received_page(r, limit, filter, cursor, base, first) ==
    [pc |-> IF r.hasMore THEN "paging" ELSE "done",
     limit |-> limit, filter |-> filter, cursor |-> cursor,
     page |-> r.txns, seen |-> reader.seen \o r.txns, base |-> base,
     next |-> r.nextCursor, first |-> first]

\* GET /gettx/:chatId?limit=&year=&month=&cursor=
FetchFirst(limit, filter, cursor) ==
    /\ reader.pc = "idle"
    /\ reader' = Received_page(getTxns(ledger, "c1", cursor, limit, filter),
                               limit, filter, cursor,
                               {i \in DOMAIN ledger : ledger[i].chatId = "c1"},
                               cursor)
    /\ UNCHANGED <<ledger, nextId, summaries, lastTransaction>>
    /\ PageFrame

\* the same query again with cursor = the nextCursor of the last response
FetchNext ==
    /\ reader.pc = "paging"
    /\ reader' = Received_page(getTxns(ledger, "c1", reader.next, reader.limit,
                                       reader.filter),
                               reader.limit, reader.filter, reader.next,
                               reader.base, reader.first)
    /\ UNCHANGED <<ledger, nextId, summaries, lastTransaction>>
    /\ PageFrame

NextPage ==
    \/ \E b \in OpenBodies(AddBodies) : PageAdd(b)
    \/ \E b \in OpenBodies(AddBodies) : InsertOlder(b)
    \/ \E l \in Limits, f \in Filters, c \in Cursors : FetchFirst(l, f, c)
    \/ FetchNext

SpecPage == Init /\ [][NextPage]_vars

\* ---------------------------------------------------------------- the routes, with every request body
WideAmounts == {0 - 1, 0, 1}
Members == {"u1", "u2"}

\* validate(addTxnSchema): amount is a positive number, date, to and from
\* are present and well formed; from and to are not compared
addTxnSchema(b) ==
    /\ b.amount # {} /\ Val(b.amount) > 0
    /\ b.date # {} /\ b.to # {} /\ b.from # {}

WideAddBodies ==
    {[chatId |-> "c1", amount |-> {a}, date |-> {dt}, remarks |-> {},
      from |-> {f}, to |-> {t}] :
        a \in WideAmounts, dt \in {x \in Dates : x >= StartNow},
        f \in Members, t \in Members}

\* PUT /edittx has no validate(...): each field is given or not on its own
WideEditBodies ==
    {[chatId |-> "c0", amount |-> a, date |-> {}, remarks |-> {},
      from |-> f, to |-> t] :
        a \in {{}} \cup {{x} : x \in WideAmounts},
        f \in {{}} \cup {{u} : u \in Members},
        t \in {{}} \cup {{u} : u \in Members}}

\* POST /createtx: validate(addTxnSchema) answers 400 itself, or calls addtxns
createtx(caller, body) ==
    /\ nextId <= MaxTx
    /\ IF addTxnSchema(body)
       THEN ApplySeq(addtxns(DB, now, caller, body))
       ELSE UNCHANGED <<ledger, nextId, summaries, lastTransaction, req>>
    /\ UNCHANGED <<now, nReq, svc, reader, side>>

NextWide ==
    \/ \E b \in WideAddBodies : createtx("u1", b)
    \/ \E i \in TxIds, b \in WideEditBodies : Edit("u1", i, b)
    \/ \E i \in TxIds : Delete("u1", i)

SpecWide == Init /\ [][NextWide]_vars

\* ---------------------------------------------------------------- calls that throw, and the notification
MaxSideReq == 3         \* requests started in this specification

\* the wrapper of every handler: a rejected await ends the handler there and
\* the error goes to next(err), which answers with an error
TryCatch(r) == Respond(r, "error")

\* addtxns: chat.members.find(member => member.toString() !== userId)
otherMember_self(r) == {r.caller}

otherMember(r) == {m \in ChatMembers[r.body.chatId] : m # r.caller}

\* the first argument of sendPushNotification: otherMember in addtxns,
\* txn.addedBy in verifyTxn
recipients(r) ==
    IF r.kind = "add" THEN otherMember(r) ELSE {r.txn.addedBy}

\* a handler with a notification reaches it where the other specifications
\* have it respond
ThenNotify(r) ==
    IF r.pc = "done" /\ r.result = "ok" /\ r.kind \in {"add", "verify"}
       /\ recipients(r) # {}
    THEN [r EXCEPT !.pc = "n_name", !.result = "none"]
    ELSE r

SideFrame == UNCHANGED <<now, svc, reader>>

\* a request starts when none is under way
SideStart(r) ==
    /\ req[1].pc = "idle"
    /\ nReq < MaxSideReq
    /\ nReq' = nReq + 1
    /\ req' = [req EXCEPT ![1] = r]
    /\ side' = [side EXCEPT !.before = summaries, !.fault = "none",
                            !.written = << >>, !.dispatched = {}]
    /\ UNCHANGED <<ledger, nextId, summaries, lastTransaction>>
    /\ SideFrame

\* validate(addTxnSchema) answers 400 itself: addtxns is never entered
SideInvalid(c, b) ==
    ~addTxnSchema(b) /\ SideStart(Reject("add", c, 0, "ValidationError"))

SideAdd(c, b) == nextId <= MaxTx /\ SideStart(addtxns_guard(DB, now, c, b))
SideVerify(c, i) == SideStart(verifyTxn_guard(DB, now, c, i))
SideEdit(c, i, b) == SideStart(editTxn_guard(DB, now, c, i, b))
SideDelete(c, i) == SideStart(deleteTxn_guard(DB, now, c, i))

\* the last store step of addtxns and of verifyTxn, then on to the notification
LastThenNotify(p, outs) ==
    /\ \E o \in outs :
         /\ SetDB(o.db)
         /\ req' = [req EXCEPT ![p] = ThenNotify(o.r)]
         /\ side' = [side EXCEPT !.written =
                        IF ThenNotify(o.r).pc = "n_name"
                        THEN <<o.db.ledger, o.db.summaries>> ELSE @]
    /\ UNCHANGED nReq
    /\ SideFrame

AddLastThenNotify(p) ==
    At(p, "a_last") /\ LastThenNotify(p, addtxns_last(DB, req[p]))
VerifySaveThenNotify(p) ==
    At(p, "v_save") /\ LastThenNotify(p, verifyTxn_save(DB, req[p]))

\* Tx.create, txn.save() or Tx.findByIdAndDelete rejects: nothing is written
LedgerWritePcs == {"a_create", "v_save", "e_save", "d_remove"}
LedgerWriteThrows(p) ==
    /\ req[p].pc \in LedgerWritePcs
    /\ req' = [req EXCEPT ![p] = TryCatch(req[p])]
    /\ side' = [side EXCEPT !.fault = "ledger"]
    /\ UNCHANGED <<ledger, nextId, summaries, lastTransaction, nReq>>
    /\ SideFrame

\* const senderName = await User.findById(userId).select("name").lean(),
\* then the call of sendPushNotification
SenderName(p) ==
    /\ At(p, "n_name")
    /\ req' = [req EXCEPT ![p].pc = "n_token"]
    /\ side' = [side EXCEPT !.dispatched = recipients(req[p])]
    /\ UNCHANGED <<ledger, nextId, summaries, lastTransaction, nReq>>
    /\ SideFrame

\* that lookup rejects: it is awaited in the handler, outside any try
SenderNameThrows(p) ==
    /\ At(p, "n_name")
    /\ req' = [req EXCEPT ![p] = TryCatch(req[p])]
    /\ side' = [side EXCEPT !.fault = "name"]
    /\ UNCHANGED <<ledger, nextId, summaries, lastTransaction, nReq>>
    /\ SideFrame

\* sendPushNotification returns, by its end or by its catch: the handler
\* goes on to its response
Returned(r) == Respond(r, "ok")

\* User.findById(userId).select("pushToken") and the two early returns
PushTokens == {"none", "invalid", "valid"}
PushToken(p, tok) ==
    /\ At(p, "n_token")
    /\ req' = [req EXCEPT ![p] = IF tok = "valid"
                                 THEN [req[p] EXCEPT !.pc = "n_push"]
                                 ELSE Returned(req[p])]
    /\ UNCHANGED <<ledger, nextId, summaries, lastTransaction, nReq, side>>
    /\ SideFrame

PushTokenThrows(p) ==
    /\ At(p, "n_token")
    /\ req' = [req EXCEPT ![p] = Returned(req[p])]
    /\ side' = [side EXCEPT !.fault = "token"]
    /\ UNCHANGED <<ledger, nextId, summaries, lastTransaction, nReq>>
    /\ SideFrame

\* expo.sendPushNotificationsAsync(chunk) inside its own try: a rejection is
\* logged and the function goes on
SendPush(p, thrown) ==
    /\ At(p, "n_push")
    /\ req' = [req EXCEPT ![p].pc = "n_record"]
    /\ side' = [side EXCEPT !.fault = IF thrown THEN "push" ELSE @]
    /\ UNCHANGED <<ledger, nextId, summaries, lastTransaction, nReq>>
    /\ SideFrame

\* Notification.create({ recipient, sender, type, data })
NotificationCreate(p) ==
    /\ At(p, "n_record")
    /\ req' = [req EXCEPT ![p] = Returned(req[p])]
    /\ side' = [side EXCEPT !.records = @ + 1]
    /\ UNCHANGED <<ledger, nextId, summaries, lastTransaction, nReq>>
    /\ SideFrame

NotificationCreateThrows(p) ==
    /\ At(p, "n_record")
    /\ req' = [req EXCEPT ![p] = Returned(req[p])]
    /\ side' = [side EXCEPT !.fault = "record"]
    /\ UNCHANGED <<ledger, nextId, summaries, lastTransaction, nReq>>
    /\ SideFrame

\* one request at a time, each of its awaits a step that may throw
NextSide ==
    \/ \E c \in Users, b \in WideAddBodies : SideInvalid(c, b)
    \/ \E c \in Users, b \in AddBodies : SideAdd(c, b)
    \/ \E c \in Users, i \in TxIds : SideVerify(c, i)
    \/ \E c \in Users, i \in TxIds, b \in EditBodies : SideEdit(c, i, b)
    \/ \E c \in Users, i \in TxIds : SideDelete(c, i)
    \/ AddCreate(1) \/ AddSummary(1) \/ AddLastThenNotify(1)
    \/ VerifySaveThenNotify(1)
    \/ EditSave(1) \/ EditSummaryDiff(1) \/ EditSummaryDelete(1)
    \/ EditSummaryAdd(1) \/ EditLast(1)
    \/ DeleteSummary(1) \/ DeleteRemove(1) \/ DeleteLast(1)
    \/ LedgerWriteThrows(1)
    \/ SenderName(1) \/ SenderNameThrows(1)
    \/ \E tok \in PushTokens : PushToken(1, tok)
    \/ PushTokenThrows(1)
    \/ \E thrown \in BOOLEAN : SendPush(1, thrown)
    \/ NotificationCreate(1) \/ NotificationCreateThrows(1)
    \/ Finish(1)

SpecSide == Init /\ [][NextSide]_vars

\* ---------------------------------------------------------------- what the claims speak of
RECURSIVE SumAmounts(_, _)
SumAmounts(L, I) ==
    IF I = {} THEN 0
    ELSE LET i == CHOOSE x \in I : TRUE
         IN  L[i].amount + SumAmounts(L, I \ {i})

TxsIn(L, k) == {i \in DOMAIN L : PeriodOf(L[i]) = k}
SentBy(L, k, u) == SumAmounts(L, {i \in TxsIn(L, k) : L[i].from = u})
ReceivedBy(L, k, u) == SumAmounts(L, {i \in TxsIn(L, k) : L[i].to = u})
\* a missing summary counts as all-zero
DocOf(S, k) == IF k \in DOMAIN S THEN S[k] ELSE EmptyDoc
Sent(S, k, u) == Val(DocOf(S, k).members[u].totalSent)
Received(S, k, u) == Val(DocOf(S, k).members[u].totalReceived)
Count(S, k) == DocOf(S, k).txCount

TotalsMatch(S, L) ==
    \A k \in AllKeys \cup DOMAIN S, u \in Users :
       /\ Sent(S, k, u) = SentBy(L, k, u)
       /\ Received(S, k, u) = ReceivedBy(L, k, u)
CountsMatch(S, L) ==
    \A k \in AllKeys \cup DOMAIN S : Count(S, k) = Cardinality(TxsIn(L, k))

Closed(date) == date < currentMonthStart(now)
Unchanged(outs) == \A o \in outs : o.db = DB
Results(outs) == {o.r.result : o \in outs}

\* ---------------------------------------------------------------- C1
\* C1: after every completed request of a sequential run, the summary of
\* every period holds, per member, totalSent = the sum of the amounts of the
\* stored transactions of the period sent by the member and totalReceived =
\* the sum of those received by the member; edits of from/to included.
C1_TotalsMatchLedger == TotalsMatch(summaries, ledger)

\* one transaction was ever added, as u1 -> u2, and an edit has reversed it
\* inside its month: both members carry both fields, two of them back at 0
C1_Witness ==
    /\ nextId = 2 /\ 1 \in DOMAIN ledger
    /\ req[1].kind = "edit" /\ req[1].txnId = 1
    /\ ledger[1].from = "u2" /\ ledger[1].to = "u1"
    /\ DOMAIN summaries = {PeriodOf(ledger[1])}
    /\ summaries[PeriodOf(ledger[1])].members["u1"].totalSent = {0}
    /\ summaries[PeriodOf(ledger[1])].members["u1"].totalReceived
          = {ledger[1].amount}

InWriteWindow(r) ==
    r.pc \in {"a_summary", "e_summary", "e_summary_add", "d_remove"}

MovedOnly(o, n) ==
    /\ getYearMonth(o.date) # getYearMonth(n.date)
    /\ o.from = n.from /\ o.to = n.to

\* C3: a completed edit that moves a transaction from period P1 to another
\* period P2 with from and to unchanged takes the old amount off
\* totalSent[from] and totalReceived[to] of P1 and one off its txCount, puts
\* the new amount and one on the same fields of P2 (created if absent), and
\* leaves both summaries equal to the sums over their periods.
C3_MoveAcrossMonths ==
    [][\A i \in (DOMAIN ledger) \cap (DOMAIN ledger') :
          MovedOnly(ledger[i], ledger'[i]) =>
             LET o == ledger[i]
                 n == ledger'[i]
                 P1 == PeriodOf(o)
                 P2 == PeriodOf(n)
             IN  /\ P1 \in DOMAIN summaries /\ P2 \in DOMAIN summaries'
                 /\ Sent(summaries', P1, o.from)
                       = Sent(summaries, P1, o.from) - o.amount
                 /\ Received(summaries', P1, o.to)
                       = Received(summaries, P1, o.to) - o.amount
                 /\ Count(summaries', P1) = Count(summaries, P1) - 1
                 /\ Sent(summaries', P2, n.from)
                       = Sent(summaries, P2, n.from) + n.amount
                 /\ Received(summaries', P2, n.to)
                       = Received(summaries, P2, n.to) + n.amount
                 /\ Count(summaries', P2) = Count(summaries, P2) + 1
                 /\ TotalsMatch(summaries', ledger')
                 /\ CountsMatch(summaries', ledger')]_vars

\* one transaction was ever added and an edit has taken it to another month:
\* the summary of the month it was added to is left with txCount 0
C3_Witness ==
    /\ nextId = 2 /\ 1 \in DOMAIN ledger
    /\ req[1].kind = "edit" /\ req[1].txnId = 1
    /\ \E k \in DOMAIN summaries :
          /\ k # PeriodOf(ledger[1])
          /\ summaries[k].txCount = 0
    /\ PeriodOf(ledger[1]) \in DOMAIN summaries
    /\ summaries[PeriodOf(ledger[1])].txCount = 1

\* ---------------------------------------------------------------- C4
\* C4: after every completed request of a sequential run the txCount of every
\* summary equals the number of transactions stored in its period; a period
\* left without transactions has txCount 0 and all totals 0.
C4_CountsMatchLedger ==
    /\ CountsMatch(summaries, ledger)
    /\ \A k \in DOMAIN summaries :
          TxsIn(ledger, k) = {} =>
             /\ summaries[k].txCount = 0
             /\ \A u \in Users : Sent(summaries, k, u) = 0
                                 /\ Received(summaries, k, u) = 0

\* the only transaction ever added has been deleted: its summary is still
\* there, with its fields back at 0
C4_Witness ==
    /\ nextId = 2 /\ ledger = << >>
    /\ req[1].kind = "delete" /\ req[1].txnId = 1
    /\ \E k \in DOMAIN summaries :
          /\ summaries[k].txCount = 0
          /\ \E u \in Users : summaries[k].members[u].totalSent = {0}

\* ---------------------------------------------------------------- C5
\* C5: once a transaction is stored with verified = true, no later step of
\* any request changes its amount, date, remarks, from or to, and none
\* removes it, whatever the interleaving of verify, edit and delete.
C5_VerifiedImmutable ==
    [][\A i \in DOMAIN ledger :
          ledger[i].verified =>
             /\ i \in DOMAIN ledger'
             /\ ledger'[i].amount = ledger[i].amount
             /\ ledger'[i].date = ledger[i].date
             /\ ledger'[i].remarks = ledger[i].remarks
             /\ ledger'[i].from = ledger[i].from
             /\ ledger'[i].to = ledger[i].to]_vars

\* ---------------------------------------------------------------- C6
DateKept == {b \in EditBodies : b.date = {}}

\* C6: creating a transaction dated before the start of the current month,
\* and editing (date left unchanged) or deleting a stored unverified
\* transaction dated before it, is rejected with ClosedPeriod and leaves the
\* ledger and the summaries as they were.
C6_ClosedPeriodRejected ==
    /\ \A c \in Users, b \in AddBodies :
          Closed(Val(b.date)) =>
             /\ Results(addtxns(DB, now, c, b)) = {"ClosedPeriod"}
             /\ Unchanged(addtxns(DB, now, c, b))
    /\ \A i \in DOMAIN ledger :
          (~ledger[i].verified /\ Closed(ledger[i].date)) =>
             /\ \A b \in DateKept :
                   /\ Results(editTxn(DB, now, ledger[i].addedBy, i, b))
                         = {"ClosedPeriod"}
                   /\ Unchanged(editTxn(DB, now, ledger[i].addedBy, i, b))
             /\ Results(deleteTxn(DB, now, ledger[i].addedBy, i))
                   = {"ClosedPeriod"}
             /\ Unchanged(deleteTxn(DB, now, ledger[i].addedBy, i))

\* ---------------------------------------------------------------- C7
NamesClosedDate(b) == b.date # {} /\ Closed(Val(b.date))
NamesOpenDate(b) == b.date # {} /\ ~Closed(Val(b.date))
OwnUnverifiedTxn(c, i) ==
    /\ i \in DOMAIN ledger
    /\ ledger[i].addedBy = c
    /\ ~ledger[i].verified
OwnOpenTxn(c, i) == OwnUnverifiedTxn(c, i) /\ ~Closed(ledger[i].date)

C7_Guard ==
    /\ \A c \in Users, i \in TxIds, b \in EditBodies :
          NamesClosedDate(b) =>
             /\ Unchanged(editTxn(DB, now, c, i, b))
             /\ "ok" \notin Results(editTxn(DB, now, c, i, b))
             /\ OwnUnverifiedTxn(c, i) =>
                   Results(editTxn(DB, now, c, i, b)) = {"ClosedPeriod"}
    /\ \A c \in Users, i \in TxIds, b \in EditBodies :
          (NamesOpenDate(b) /\ OwnOpenTxn(c, i)) =>
             Results(editTxn(DB, now, c, i, b)) = {"ok"}
    /\ \A b \in AddBodies :
          (b.chatId \in Chats /\ ~Closed(Val(b.date))) =>
             Results(addtxns(DB, now, "u1", b)) = {"ok"}

C7_NoClosedStore ==
    \A i \in DOMAIN ledger' :
       (i \notin DOMAIN ledger \/ ledger'[i].date # ledger[i].date) =>
          ledger'[i].date >= currentMonthStart(now)

\* C7: an edit that names a new date before the start of the current month
\* is rejected (with ClosedPeriod when the caller may otherwise edit the
\* transaction) and changes nothing; no add or edit stores a transaction
\* dated in a month that was closed when the request ran; a date at the
\* start of the current month or later is accepted.
C7_NewDateNotClosed == []C7_Guard /\ [][C7_NoClosedStore]_vars

\* the month has rolled over; a transaction dated exactly at the start of the
\* new month is stored, and moving it back into the old month is rejected
C7_Witness ==
    /\ now > StartNow
    /\ \E i \in DOMAIN ledger :
          /\ OwnOpenTxn("u1", i)
          /\ ledger[i].date = currentMonthStart(now)
          /\ \E b \in EditBodies :
                /\ b.date = {StartNow}
                /\ Results(editTxn(DB, now, "u1", i, b)) = {"ClosedPeriod"}

\* ---------------------------------------------------------------- C8
\* C8: a verify request by the transaction's addedBy member is rejected and
\* leaves the record as it is; in every reachable state a verified
\* transaction has a verifiedBy different from its addedBy.
C8_NoSelfVerify ==
    /\ \A i \in DOMAIN ledger :
          ledger[i].verified =>
             /\ ledger[i].verifiedBy # {}
             /\ ledger[i].verifiedBy # {ledger[i].addedBy}
    /\ \A i \in DOMAIN ledger :
          /\ "ok" \notin Results(verifyTxn(DB, now, ledger[i].addedBy, i))
          /\ Unchanged(verifyTxn(DB, now, ledger[i].addedBy, i))
    /\ \A p \in Procs :
          (/\ req[p].kind = "verify"
           /\ req[p].txnId \in DOMAIN ledger
           /\ ledger[req[p].txnId].addedBy = req[p].caller) =>
             req[p].pc # "v_save" /\ req[p].result # "ok"

\* a verify by the adder has been rejected while the same transaction stands
\* verified by somebody else
C8_Witness ==
    \E p \in Procs :
       /\ req[p].kind = "verify" /\ req[p].result = "Forbidden"
       /\ req[p].txnId \in DOMAIN ledger
       /\ req[p].caller = ledger[req[p].txnId].addedBy
       /\ ledger[req[p].txnId].verified

\* ---------------------------------------------------------------- C9
\* C9 as stated: verifying an already verified transaction returns
\* InvalidState for every caller, its adder included, and changes nothing.
C9_AlreadyVerifiedInvalidState ==
    \A i \in DOMAIN ledger, c \in Users :
       ledger[i].verified =>
          /\ Results(verifyTxn(DB, now, c, i)) = {"InvalidState"}
          /\ Unchanged(verifyTxn(DB, now, c, i))

\* C9 amended: verifying an already verified transaction is rejected and
\* changes nothing; the error is InvalidState for every caller but the
\* transaction's adder, who gets Forbidden.
C9_AlreadyVerifiedRejected ==
    \A i \in DOMAIN ledger, c \in Users :
       ledger[i].verified =>
          /\ Results(verifyTxn(DB, now, c, i))
                = {IF c = ledger[i].addedBy THEN "Forbidden"
                   ELSE "InvalidState"}
          /\ Unchanged(verifyTxn(DB, now, c, i))

\* a second verify of a verified transaction has been answered InvalidState
C9_Witness ==
    /\ req[1].kind = "verify" /\ req[1].result = "InvalidState"
    /\ req[1].txnId \in DOMAIN ledger
    /\ ledger[req[1].txnId].verified
    /\ req[1].caller # ledger[req[1].txnId].addedBy

\* ---------------------------------------------------------------- C10
SameAggregate(S, T) ==
    \A k \in SvcKeys \cup DOMAIN S \cup DOMAIN T :
       /\ Count(S, k) = Count(T, k)
       /\ \A u \in Users : /\ Sent(S, k, u) = Sent(T, k, u)
                           /\ Received(S, k, u) = Received(T, k, u)

\* C10: updateSummaryOnAdd followed at once by updateSummaryOnDelete with the
\* same arguments leaves every member's totals and every txCount at their
\* starting values, an absent summary counting as all-zero.
C10_AddDeleteRoundTrip ==
    svc.pc = "roundtrip" => SameAggregate(summaries, svc.start)

\* a round trip through a period that had no summary document: the document
\* now exists and counts as all-zero
C10_Witness ==
    /\ svc.pc = "roundtrip"
    /\ Key(svc.args.chatId, getYearMonth(svc.args.date)) \notin DOMAIN svc.start
    /\ Key(svc.args.chatId, getYearMonth(svc.args.date)) \in DOMAIN summaries
    /\ svc.start # << >>

\* ---------------------------------------------------------------- C11
\* updateSummaryOnDelete with the old values, then updateSummaryOnAdd with the
\* new ones
DeleteThenAdd(S, a, n) ==
    updateSummaryOnAdd(
        updateSummaryOnDelete(S, a.chatId, a.date, a.from, a.to, a.amount),
        a.chatId, a.date, a.from, a.to, n)
SvcKey == Key(svc.args.chatId, getYearMonth(svc.args.date))

\* C11 as stated: for every starting summary state and every old and new
\* amount, an amount-only updateSummaryOnEdit ends with the totals and
\* txCount that updateSummaryOnDelete(old) then updateSummaryOnAdd(new) gives.
C11_EditAsDeleteAdd ==
    svc.pc = "edited" =>
       SameAggregate(summaries,
                     DeleteThenAdd(svc.start, svc.args, svc.newAmount))

\* C11 amended: the same, for every starting summary state that holds a
\* summary document for the transaction's period.
C11_EditAsDeleteAddOnDocument ==
    (svc.pc = "edited" /\ SvcKey \in DOMAIN svc.start) =>
       SameAggregate(summaries,
                     DeleteThenAdd(svc.start, svc.args, svc.newAmount))

\* an amount-changing edit has run on an existing document that was built by
\* other calls
C11_Witness ==
    /\ svc.pc = "edited"
    /\ SvcKey \in DOMAIN svc.start
    /\ svc.newAmount # svc.args.amount
    /\ summaries # svc.start

\* ---------------------------------------------------------------- C12
RECURSIVE SumNet(_, _, _)
SumNet(S, K, u) ==
    IF K = {} THEN 0
    ELSE LET k == CHOOSE x \in K : TRUE
         IN  (Received(S, k, u) - Sent(S, k, u)) + SumNet(S, K \ {k}, u)

\* the summaries of chat c strictly before (year, month)
StrictlyPrior(S, c, year, month) ==
    {k \in DOMAIN S :
        /\ k[1] = c
        /\ k[2] * MonthsPerYear + k[3] < year * MonthsPerYear + month}
AppearsIn(S, k, u) ==
    S[k].members[u].totalSent # {} \/ S[k].members[u].totalReceived # {}

\* C12: getCarryForward(chat, year, month) returns an entry for exactly the
\* members that appear in a summary of the chat strictly before (year,
\* month), and the entry is the sum over those summaries of totalReceived
\* minus totalSent, a member missing from a period contributing zero; other
\* chats and (year, month) or later contribute nothing.
C12_CarryForwardIsPriorNet ==
    svc.pc = "carried" =>
       LET P == StrictlyPrior(summaries, svc.query[1], svc.query[2],
                              svc.query[3])
       IN  /\ DOMAIN svc.net
                = {u \in Users : \E k \in P : AppearsIn(summaries, k, u)}
           /\ \A u \in DOMAIN svc.net : svc.net[u] = SumNet(summaries, P, u)

\* a result with a non-zero entry, computed while a summary that is not
\* strictly prior (a later month or another chat) also holds totals
C12_Witness ==
    /\ svc.pc = "carried"
    /\ \E u \in DOMAIN svc.net : svc.net[u] # 0
    /\ \E k \in DOMAIN summaries :
          /\ k \notin StrictlyPrior(summaries, svc.query[1], svc.query[2],
                                    svc.query[3])
          /\ \E u \in Users : AppearsIn(summaries, k, u)

\* ---------------------------------------------------------------- C13
\* the old and new dates of the transactions a step creates, changes or removes
TouchedDates ==
    {ledger'[i].date : i \in {j \in DOMAIN ledger' :
                                j \notin DOMAIN ledger \/ ledger'[j] # ledger[j]}}
    \cup
    {ledger[i].date : i \in {j \in DOMAIN ledger :
                               j \notin DOMAIN ledger' \/ ledger'[j] # ledger[j]}}
InOrAfter(date, ym) ==
    getYearMonth(date).year * MonthsPerYear + getYearMonth(date).month
       >= ym.year * MonthsPerYear + ym.month

\* C13: an add, edit or delete whose old and new dates all lie in period M or
\* later leaves the result of getCarryForward for M unchanged.
C13_CarryForwardFrame ==
    [][\A c \in Chats, ym \in QueryPeriods :
          (\A d \in TouchedDates : InOrAfter(d, ym)) =>
             getCarryForward(summaries', c, ym.year, ym.month)
                = getCarryForward(summaries, c, ym.year, ym.month)]_vars

\* period M has a non-zero carry-forward from an earlier month, and a
\* transaction dated in M or later has been added and then edited
C13_Witness ==
    \E ym \in QueryPeriods :
       /\ \E u \in DOMAIN getCarryForward(summaries, "c1", ym.year, ym.month) :
             getCarryForward(summaries, "c1", ym.year, ym.month)[u] # 0
       /\ Count(summaries, <<"c1", ym.year, ym.month>>) > 0
       /\ req[1].kind = "edit"
       /\ req[1].txnId \in DOMAIN ledger
       /\ InOrAfter(ledger[req[1].txnId].date, ym)

\* ---------------------------------------------------------------- C14
Occurrences(q, i) == Cardinality({n \in 1 .. Len(q) : q[n] = i})

\* C14: a reader that starts without cursor or month filter and passes each
\* nextCursor back until hasMore is false has received every transaction the
\* chat held at the start exactly once, in descending date order, whatever
\* the limit, with equal dates allowed and with transactions dated before
\* the cursor inserted between fetches.
C14_EveryTxnOnce ==
    (reader.pc = "done" /\ reader.filter = {} /\ reader.first = {}) =>
       /\ \A i \in reader.base : Occurrences(reader.seen, i) = 1
       /\ \A m, n \in 1 .. Len(reader.seen) :
             m < n => ledger[reader.seen[m]].date >= ledger[reader.seen[n]].date

\* ---------------------------------------------------------------- C15
\* C15: a response to a query with both a (year, month) filter and a cursor
\* holds only transactions dated inside the month's window and before the
\* cursor, for every cursor, also one after the end of the month.
C15_WindowAndCursor ==
    (reader.pc # "idle" /\ reader.filter # {} /\ reader.cursor # {}) =>
       \A n \in 1 .. Len(reader.page) :
          /\ ledger[reader.page[n]].date >= monthStart(Val(reader.filter))
          /\ ledger[reader.page[n]].date < monthEnd(Val(reader.filter))
          /\ ledger[reader.page[n]].date < Val(reader.cursor)

\* ---------------------------------------------------------------- C16
Quiescent == \A p \in Procs : req[p].pc \in {"idle", "done"}

\* C16: when a month-changing or direction-changing edit of a transaction
\* overlaps add and delete requests for other transactions of the same
\* periods, then under every interleaving of the store steps, once every
\* request has completed, every summary equals the sums and the count of
\* the transactions stored in its period.
C16_ConvergesWhenQuiescent ==
    Quiescent => TotalsMatch(summaries, ledger) /\ CountsMatch(summaries, ledger)

\* an edit that left the single $inc path stands between its remove-old and
\* add-new steps while an add for the old period is about to write its summary
C16_Witness ==
    \E p, q \in Procs :
       /\ req[p].pc = "e_summary_add"
       /\ req[q].pc = "a_summary"
       /\ PeriodOf(ledger[req[q].txnId])
             = Key(req[p].txn.chatId, getYearMonth(req[p].oldTx.date))

\* ---------------------------------------------------------------- C17
\* C17: after overlapping add requests into one (chat, year, month), also
\* when the period had no summary, once all have completed the period has
\* its summary document, and the document's totals and txCount are the sums
\* and the count of all the added transactions.
C17_NoIncrementLost ==
    (\A p \in Procs : req[p].pc \in {"idle", "done"}) =>
       \A k \in AllKeys :
          /\ TxsIn(ledger, k) # {} => k \in DOMAIN summaries
          /\ Count(summaries, k) = Cardinality(TxsIn(ledger, k))
          /\ \A u \in Users :
                /\ Sent(summaries, k, u) = SentBy(ledger, k, u)
                /\ Received(summaries, k, u) = ReceivedBy(ledger, k, u)

\* two adds in flight at once, both past their summary write, into the same
\* period, whose document counts both
C17_Witness ==
    /\ req[1].pc = "a_last" /\ req[2].pc = "a_last"
    /\ PeriodOf(ledger[req[1].txnId]) = PeriodOf(ledger[req[2].txnId])
    /\ Count(summaries, PeriodOf(ledger[req[1].txnId])) = 2
\* ---------------------------------------------------------------- C18
FailedAt(kinds, faults) ==
    /\ req[1].pc = "done"
    /\ req[1].kind \in kinds
    /\ side.fault \in faults

\* C18: an add, edit or delete request whose ledger write (Tx.create,
\* txn.save(), Tx.findByIdAndDelete) failed has updated no summary: when it
\* has ended, every summary is as it was when the request began.
C18_FailedLedgerWriteLeavesSummaries ==
    FailedAt({"add", "edit", "delete"}, {"ledger"}) => summaries = side.before

\* ---------------------------------------------------------------- C19
NotificationFaults == {"name", "token", "push", "record"}

\* C19: when a step of the notification of an add or verify request has
\* failed (the lookup of the sender's name, the lookup of the recipient's
\* push token, the push, the write of the Notification record), the request
\* still answers with success, and the ledger and the summaries are as they
\* were when the notification began.
C19_NotificationFailureHarmless ==
    FailedAt({"add", "verify"}, NotificationFaults) =>
        /\ req[1].result = "ok"
        /\ <<ledger, summaries>> = side.written

\* ---------------------------------------------------------------- C20
Succeeded(kinds) ==
    /\ req[1].pc = "done"
    /\ req[1].result = "ok"
    /\ req[1].kind \in kinds

ChatOf(r) == IF r.kind = "add" THEN r.body.chatId ELSE r.txn.chatId

\* sendPushNotification has been called, and only for members of the
\* request's chat other than the caller
DispatchedToOthers ==
    /\ side.dispatched # {}
    /\ side.dispatched \subseteq ChatMembers[ChatOf(req[1])] \ {req[1].caller}

\* C20, as stated: every successful add, edit, delete and verify request
\* fires a notification dispatch to the other chat member(s).  No step
\* follows the response, so a dispatch not fired when the request answers is
\* never fired.
C20_EveryMutationNotifies ==
    Succeeded({"add", "edit", "delete", "verify"}) => DispatchedToOthers

\* C20, amended: every successful add and verify request fires a
\* notification dispatch to the other chat member(s).
C20_AddAndVerifyNotify ==
    Succeeded({"add", "verify"}) => DispatchedToOthers

\* a verify has answered with success after notifying the member who added
\* the transaction, and the Notification record of the earlier add is stored
C20_Witness ==
    /\ Succeeded({"verify"})
    /\ side.dispatched = {req[1].txn.addedBy}
    /\ side.records > 0

\* ---------------------------------------------------------------- C21
\* the chat's lastTransaction names a stored transaction of the chat with the
\* greatest date, and is unset when the chat has none
LastIsLatest(c) ==
    IF \E i \in DOMAIN ledger : ledger[i].chatId = c
    THEN lastTransaction[c] \in
             {{LastOf(ledger[i])} : i \in LatestTxns(ledger, c)}
    ELSE lastTransaction[c] = {}

\* C21: after each completed add, edit or delete request (requests run one
\* at a time), every chat's lastTransaction holds the amount, date and remark
\* of its stored transaction with the greatest date, and is unset when the
\* chat has no transactions.
C21_LastTransactionIsLatest == \A c \in Chats : LastIsLatest(c)

\* ---------------------------------------------------------------- C22
\* C22: an edit or a delete of a stored transaction by a caller who is not
\* its addedBy is rejected with Forbidden and leaves the ledger, every
\* summary and every chat's lastTransaction as they were, whatever the
\* transaction's state and date and whatever the edit offers.
C22_OnlyOwnerEditsOrDeletes ==
    \A i \in DOMAIN ledger : \A c \in Users \ {ledger[i].addedBy} :
       /\ \A b \in EditBodies :
             /\ Results(editTxn(DB, now, c, i, b)) = {"Forbidden"}
             /\ Unchanged(editTxn(DB, now, c, i, b))
       /\ Results(deleteTxn(DB, now, c, i)) = {"Forbidden"}
       /\ Unchanged(deleteTxn(DB, now, c, i))

\* the other member of the chat asks to delete, and to edit, an open
\* unverified transaction that its owner could still delete: both requests
\* are rejected with Forbidden
C22_Witness ==
    \E i \in DOMAIN ledger :
       /\ ledger[i].addedBy = "u1"
       /\ "ok" \in Results(deleteTxn(DB, now, "u1", i))
       /\ Results(deleteTxn(DB, now, "u2", i)) = {"Forbidden"}
       /\ \E b \in EditBodies :
             /\ b.amount # {}
             /\ Results(editTxn(DB, now, "u2", i, b)) = {"Forbidden"}

\* ---------------------------------------------------------------- C23
Outsiders(c) == Users \ ChatMembers[c]

RejectedForbidden(outs) == Results(outs) = {"Forbidden"} /\ Unchanged(outs)

\* add, edit and delete asked by someone outside the chat
OutsiderCannotWrite ==
    /\ \A b \in AddBodies :
          (b.chatId \in Chats /\ ~Closed(Val(b.date))) =>
             \A c \in Outsiders(b.chatId) :
                RejectedForbidden(addtxns(DB, now, c, b))
    /\ \A i \in DOMAIN ledger : \A c \in Outsiders(ledger[i].chatId) :
          /\ \A b \in EditBodies : RejectedForbidden(editTxn(DB, now, c, i, b))
          /\ RejectedForbidden(deleteTxn(DB, now, c, i))

\* verify asked by someone outside the chat
OutsiderCannotVerify ==
    \A i \in DOMAIN ledger : \A c \in Outsiders(ledger[i].chatId) :
       RejectedForbidden(verifyTxn(DB, now, c, i))

\* C23: add, edit, delete and verify asked by a caller who is not a member
\* of the transaction's chat are rejected with Forbidden and change nothing,
\* and no stored transaction is marked verified by someone outside its chat.
C23_OutsidersRejected ==
    /\ OutsiderCannotWrite
    /\ OutsiderCannotVerify
    /\ \A i \in DOMAIN ledger :
          ledger[i].verifiedBy \subseteq ChatMembers[ledger[i].chatId]

\* ---------------------------------------------------------------- C24
PositiveAmounts == \A i \in DOMAIN ledger : ledger[i].amount > 0
DistinctParties == \A i \in DOMAIN ledger : ledger[i].from # ledger[i].to

\* C24: in every reachable state every stored transaction has amount > 0 and
\* from different from to, whatever bodies the add and edit requests carry.
C24_AmountPositiveFromNotTo == PositiveAmounts /\ DistinctParties

\* ---------------------------------------------------------------- C25
\* slot p answers a verify with success in this step
VerifySucceeds(p) == req[p].pc = "v_save" /\ req'[p].result = "ok"

OnlyVerificationFields(a, b) ==
    /\ b.verified
    /\ b = [a EXCEPT !.verified = b.verified, !.verifiedBy = b.verifiedBy,
                     !.verifiedAt = b.verifiedAt]

\* C25: the step in which a verify succeeds leaves every summary and every
\* chat's lastTransaction as they were, stores and removes no transaction,
\* and changes of the verified transaction only verified, verifiedBy and
\* verifiedAt: its amount, date, from, to and remarks stay as stored, also
\* when another request has edited them since the verify read it.
C25_VerifyFrame ==
    [][\A p \in Procs :
         VerifySucceeds(p) =>
            /\ UNCHANGED <<summaries, lastTransaction>>
            /\ DOMAIN ledger' = DOMAIN ledger
            /\ \A i \in DOMAIN ledger :
                  IF i = req[p].txnId
                  THEN OnlyVerificationFields(ledger[i], ledger'[i])
                  ELSE ledger'[i] = ledger[i]]_vars

\* a verify has succeeded on a transaction whose amount an edit changed
\* after the verify had read it: the stored amount is the edit's
C25_Witness ==
    \E p \in Procs :
       /\ req[p].pc = "done" /\ req[p].kind = "verify" /\ req[p].result = "ok"
       /\ req[p].txnId \in DOMAIN ledger
       /\ ledger[req[p].txnId].verified
       /\ ledger[req[p].txnId].amount # req[p].txn.amount

\* ---------------------------------------------------------------- C26
ListedPeriods(q) == {<<q[n].year, q[n].month>> : n \in 1 .. Len(q)}
ActivePeriods(L, c) ==
    {<<getYearMonth(L[i].date).year, getYearMonth(L[i].date).month>> :
        i \in {j \in DOMAIN L : L[j].chatId = c}}
StrictlyNewestFirst(q) ==
    \A n \in 1 .. (Len(q) - 1) :
       \/ q[n].year > q[n + 1].year
       \/ q[n].year = q[n + 1].year /\ q[n].month > q[n + 1].month

\* C26: after any sequence of completed add, edit and delete requests the
\* months index of a chat lists exactly the (year, month) periods that hold
\* a stored transaction of the chat, each once, newest first; a period
\* emptied by deletes or by edits that moved its transactions is not listed.
C26_MonthsIndexIsActivePeriods ==
    \A c \in ChatIds :
       LET q == getChatMonths(summaries, c)
       IN  /\ ListedPeriods(q) = ActivePeriods(ledger, c)
           /\ Len(q) = Cardinality(ListedPeriods(q))
           /\ StrictlyNewestFirst(q)

\* one period of the chat has a summary document counted back to zero and
\* another holds a transaction: the index lists the second only
C26_Witness ==
    /\ \E k \in DOMAIN summaries : k[1] = "c1" /\ summaries[k].txCount = 0
    /\ Len(getChatMonths(summaries, "c1")) = 1
    /\ Len(getChatMonths_all(summaries, "c1")) = 2

\* ---------------------------------------------------------------- C27
ZeroStats == [totalSent |-> 0, totalReceived |-> 0, net |-> 0]
AllZero(res, c) ==
    /\ res.members = [u \in ChatMembers[c] |-> ZeroStats]
    /\ res.txCount = 0

\* every value of the document has been counted back to zero
ZeroedDoc(doc) ==
    /\ doc.txCount = 0
    /\ Entries(doc) # {}
    /\ \A u \in Users : Val(doc.members[u].totalSent) = 0
                        /\ Val(doc.members[u].totalReceived) = 0

Without(S, k) == [x \in (DOMAIN S) \ {k} |-> S[x]]

\* C27: the stats read of a (chat, year, month) without a summary document
\* answers totalSent = 0, totalReceived = 0 and net = 0 for every member of
\* the chat and txCount = 0; for a document whose values are all back at
\* zero it answers the same as it would were the document absent.
C27_MissingSummaryReadsZero ==
    \A c \in Chats, ym \in QueryPeriods :
       LET k == Key(c, ym)
           res == getChatStats(summaries, c, ym.year, ym.month)
       IN  /\ k \notin DOMAIN summaries => AllZero(res, c)
           /\ (k \in DOMAIN summaries /\ ZeroedDoc(summaries[k])) =>
                 /\ AllZero(res, c)
                 /\ res = getChatStats(Without(summaries, k), c,
                                       ym.year, ym.month)

\* chat c1 has a period whose document is back at zero, a period without a
\* document, and an earlier period with totals, so that the carry-forward of
\* the answers is not empty
C27_Witness ==
    \E ym \in QueryPeriods, zm \in QueryPeriods :
       /\ Key("c1", ym) \in DOMAIN summaries
       /\ ZeroedDoc(summaries[Key("c1", ym)])
       /\ Key("c1", zm) \notin DOMAIN summaries
       /\ getChatStats(summaries, "c1", ym.year, ym.month).carryForward
             # EmptyNet

\* ---------------------------------------------------------------- C28
\* C28: a verify of an unverified transaction dated before the start of the
\* current month, asked by a member of its chat other than addedBy,
\* succeeds and stores verified = true with that member as verifiedBy.
C28_ClosedMonthVerifiable ==
    \A i \in DOMAIN ledger :
       (~ledger[i].verified /\ Closed(ledger[i].date)) =>
          \A c \in ChatMembers[ledger[i].chatId] \ {ledger[i].addedBy} :
             \A o \in verifyTxn(DB, now, c, i) :
                /\ o.r.result = "ok"
                /\ o.db.ledger[i].verified
                /\ o.db.ledger[i].verifiedBy = {c}

\* a stored transaction was verified in a month after the month of its date
C28_Witness ==
    \E i \in DOMAIN ledger :
       /\ ledger[i].verified
       /\ ledger[i].verifiedBy = {"u2"}
       /\ MonthIdx(Val(ledger[i].verifiedAt)) > MonthIdx(ledger[i].date)

\* ---------------------------------------------------------------- C29
\* a verified transaction is still stored and still verified after the step
StaysVerified(i) == i \in DOMAIN ledger' /\ ledger'[i].verified

\* and its verifiedBy and verifiedAt are as they were
KeepsVerifier(i) ==
    i \in DOMAIN ledger' =>
       /\ ledger'[i].verifiedBy = ledger[i].verifiedBy
       /\ ledger'[i].verifiedAt = ledger[i].verifiedAt

\* C29: verified is terminal.  No step of any request, under any
\* interleaving of overlapping requests, takes a stored transaction with
\* verified = true out of that state or changes its verifiedBy or
\* verifiedAt.
C29_VerifiedIsTerminal ==
    [][\A i \in DOMAIN ledger :
          ledger[i].verified => StaysVerified(i) /\ KeepsVerifier(i)]_vars

\* ---------------------------------------------------------------- C30
Matches(S, L) == TotalsMatch(S, L) /\ CountsMatch(S, L)

\* the stored transaction of the edit under way, with the values it had
\* before the edit
OldRecord(r) ==
    [ledger[r.txnId] EXCEPT !.date = r.oldTx.date, !.from = r.oldTx.from,
                            !.to = r.oldTx.to, !.amount = r.oldTx.amount]

\* the ledger as the summaries would see it with only the old values of the
\* edited transaction, with neither, and with both
LedgerOldOnly(r) == [ledger EXCEPT ![r.txnId] = OldRecord(r)]
LedgerNeither(r) == [j \in (DOMAIN ledger) \ {r.txnId} |-> ledger[j]]
LedgerBoth(r) ==
    [j \in (DOMAIN ledger) \cup {0} |->
        IF j = 0 THEN OldRecord(r) ELSE ledger[j]]

TwoStepEdit(r) ==
    /\ r.kind = "edit"
    /\ r.pc \in {"e_summary", "e_summary_add", "e_last"}
    /\ ~SinglePath(r)

\* C30: in an edit that changes month or direction the summaries hold, one
\* after the other, the old contribution only (before the removing step),
\* neither contribution (between the two steps: the old period's totals and
\* txCount lowered, the new values applied nowhere), and the new
\* contribution only (after the applying step); in none of these states
\* are both contributions counted.
C30_RemoveThenApply ==
    LET r == req[1]
    IN  TwoStepEdit(r) =>
           /\ r.pc = "e_summary" => Matches(summaries, LedgerOldOnly(r))
           /\ r.pc = "e_summary_add" => Matches(summaries, LedgerNeither(r))
           /\ r.pc = "e_last" => Matches(summaries, ledger)
           /\ ~Matches(summaries, LedgerBoth(r))

\* between the two steps of an edit that moves the only transaction of its
\* month to a month without a summary document: the old period's document
\* is back at txCount 0 and the new period has none yet
C30_Witness ==
    LET r == req[1]
    IN  /\ TwoStepEdit(r)
        /\ r.pc = "e_summary_add"
        /\ ~sameMonth(r.oldTx, NewOf(r))
        /\ Key(r.doc.chatId, getYearMonth(r.oldTx.date)) \in DOMAIN summaries
        /\ Count(summaries, Key(r.doc.chatId, getYearMonth(r.oldTx.date))) = 0
        /\ Key(r.doc.chatId, getYearMonth(r.doc.date)) \notin DOMAIN summaries

\* ---------------------------------------------------------------- C31
\* the summaries after the step differ from those before it in nothing but
\* the sender's totalSent and the receiver's totalReceived of period k
OnlyTotalsOf(k, from, to) ==
    /\ DOMAIN summaries' = DOMAIN summaries
    /\ \A x \in DOMAIN summaries :
          IF x # k THEN summaries'[x] = summaries[x]
          ELSE /\ summaries'[x].txCount = summaries[x].txCount
               /\ \A u \in Users :
                     /\ u # from =>
                           summaries'[x].members[u].totalSent
                              = summaries[x].members[u].totalSent
                     /\ u # to =>
                           summaries'[x].members[u].totalReceived
                              = summaries[x].members[u].totalReceived

\* C31: the summary step of an edit that keeps the year-month and from and
\* to adds newAmount - oldAmount to totalSent[from] and to totalReceived[to]
\* of that period and changes nothing else: not txCount, not another
\* member's totals, not another summary; with newAmount = oldAmount it
\* leaves the summaries exactly as they were.
C31_SameMonthEditIsOneDelta ==
    [][(req[1].pc = "e_summary" /\ SinglePath(req[1])
                                /\ req'[1].pc = "e_last") =>
          LET r == req[1]
              k == Key(r.doc.chatId, getYearMonth(r.oldTx.date))
              diff == r.doc.amount - r.oldTx.amount
          IN  /\ OnlyTotalsOf(k, r.oldTx.from, r.oldTx.to)
              /\ Sent(summaries', k, r.oldTx.from)
                    = Sent(summaries, k, r.oldTx.from) + diff
              /\ Received(summaries', k, r.oldTx.to)
                    = Received(summaries, k, r.oldTx.to) + diff
              /\ diff = 0 => summaries' = summaries]_vars

\* the summary step of an edit that lowered the amount of one of two
\* transactions of the same period has been taken
C31_Witness ==
    LET r == req[1]
    IN  /\ r.kind = "edit" /\ r.pc = "e_last" /\ SinglePath(r)
        /\ r.doc.amount < r.oldTx.amount
        /\ Count(summaries, Key(r.doc.chatId, getYearMonth(r.oldTx.date))) = 2

\* ---------------------------------------------------------------- C32
Rejections ==
    {"NotFound", "Forbidden", "InvalidState", "ClosedPeriod",
     "ValidationError"}

\* C32: a request is rejected (NotFound, Forbidden, InvalidState,
\* ClosedPeriod, ValidationError) only in its first step, before any of its
\* writes: the step that rejects it leaves the ledger, every summary and
\* every chat's lastTransaction as they were, calls no notification and
\* stores no Notification record.
C32_RejectedBeforeFirstWrite ==
    [][req'[1].result \in Rejections =>
          /\ req[1].pc = "idle"
          /\ UNCHANGED <<ledger, nextId, summaries, lastTransaction>>
          /\ side'.dispatched = {}
          /\ side'.records = side.records]_vars

\* an edit of a verified transaction has been rejected with InvalidState
\* after earlier requests had written summaries and a Notification record
C32_Witness ==
    /\ req[1].pc = "done" /\ req[1].kind = "edit"
    /\ req[1].result = "InvalidState"
    /\ summaries # << >> /\ side.records > 0 /\ side.dispatched = {}

\* ---------------------------------------------------------------- C33
SortedDateIdDesc(L, q) ==
    \A n \in 1 .. (Len(q) - 1) :
       \/ L[q[n]].date > L[q[n + 1]].date
       \/ L[q[n]].date = L[q[n + 1]].date /\ q[n] > q[n + 1]

PageWellFormed(L, chatId, cursor, limit, filter) ==
    LET res == getTxns(L, chatId, cursor, limit, filter)
        matching == Matching(L, chatId, QueryDate(filter, cursor))
    IN  /\ Len(res.txns) <= limit
        /\ \A n \in 1 .. Len(res.txns) : res.txns[n] \in matching
        /\ SortedDateIdDesc(L, res.txns)
        /\ res.hasMore <=> Cardinality(matching) > Len(res.txns)
        /\ res.nextCursor = IF res.hasMore
                            THEN {L[res.txns[Len(res.txns)]].date}
                            ELSE {}

SvcCalls == {[kind |-> k, args |-> a] : k \in {"add", "delete"}, a \in SvcArgs}

ApplyCall(S, c) ==
    IF c.kind = "add"
    THEN updateSummaryOnAdd(S, c.args.chatId, c.args.date, c.args.from,
                            c.args.to, c.args.amount)
    ELSE updateSummaryOnDelete(S, c.args.chatId, c.args.date, c.args.from,
                               c.args.to, c.args.amount)

\* C34: from every summary state, a missing document for the period
\* included, any two calls of updateSummaryOnAdd and updateSummaryOnDelete
\* with any arguments end with the same totals and txCount in either order.
C34_AddAndDeleteCommute ==
    \A x \in SvcCalls, y \in SvcCalls :
       SameAggregate(ApplyCall(ApplyCall(summaries, x), y),
                     ApplyCall(ApplyCall(summaries, y), x))

\* ---------------------------------------------------------------- C38
SameSummaries(S, T) ==
    \A k \in AllKeys \cup DOMAIN S \cup DOMAIN T :
       /\ Count(S, k) = Count(T, k)
       /\ \A u \in Users : /\ Sent(S, k, u) = Sent(T, k, u)
                           /\ Received(S, k, u) = Received(T, k, u)

BackfillRuns == svc.pc = "idle" /\ svc'.pc = "backfilled"

\* C38: after any one-at-a-time run of add, edit and delete requests, the
\* summaries the backfill builds from the stored transactions have the same
\* totalSent, totalReceived and txCount for every chat, period and member as
\* the incrementally maintained summaries they replace, an absent summary or
\* member counting as zero.
C38_BackfillEqualsIncremental ==
    [][BackfillRuns => SameSummaries(summaries', summaries)]_vars

\* ---------------------------------------------------------------- C35
\* both requests have responded and were about the same transaction
BothDone(kind1, kind2) ==
    /\ req[1].pc = "done" /\ req[2].pc = "done"
    /\ {req[1].kind, req[2].kind} = {kind1, kind2}
    /\ req[1].txnId = req[2].txnId
PassedGuards == \A p \in Procs : req[p].result \notin Rejections
SummariesMatchLedger ==
    TotalsMatch(summaries, ledger) /\ CountsMatch(summaries, ledger)

\* C35: two overlapping edits of the same unverified transaction that both
\* read it before either saved (both hold the same snapshot of the old
\* values): once both have completed, every summary equals the sums and the
\* count of the stored transactions, under every interleaving.
C35_ConcurrentEditsConverge ==
    (BothDone("edit", "edit") /\ PassedGuards /\ req[1].oldTx = req[2].oldTx)
       => SummariesMatchLedger

\* ---------------------------------------------------------------- C36
\* C36: an edit and a delete of the same unverified transaction overlap:
\* once both have completed, with success or with an error, every summary
\* equals the sums and the count of the transactions then stored.
C36_EditAndDeleteConverge ==
    BothDone("edit", "delete") => SummariesMatchLedger

\* ---------------------------------------------------------------- C37
NoneNegative ==
    \A k \in DOMAIN summaries :
       /\ summaries[k].txCount >= 0
       /\ \A u \in Users : Sent(summaries, k, u) >= 0
                           /\ Received(summaries, k, u) >= 0

\* C37: two overlapping deletes of the same transaction that both read it
\* before either removed it (both passed the guards): the transaction's
\* contribution is subtracted at most once, so once both have completed the
\* txCount and totals of its period equal those of the remaining
\* transactions and none is negative.
C37_ConcurrentDeletesSubtractOnce ==
    (BothDone("delete", "delete") /\ PassedGuards)
       => SummariesMatchLedger /\ NoneNegative

\* ---------------------------------------------------------------- C39
Touched(chatId, dates) == {Key(chatId, getYearMonth(dt)) : dt \in dates}

\* from summaries S to T only the documents of chatId in the periods of
\* dates differ, and in them only the entries of members and txCount
FrameKept(S, T, chatId, dates, members) ==
    /\ DOMAIN S \subseteq DOMAIN T
    /\ DOMAIN T \subseteq (DOMAIN S) \cup Touched(chatId, dates)
    /\ \A k \in (DOMAIN S) \ Touched(chatId, dates) : T[k] = S[k]
    /\ \A k \in (DOMAIN T) \cap Touched(chatId, dates) :
          \A u \in Users \ members : T[k].members[u] = DocOf(S, k).members[u]

EditPairs == {e \in SvcArgs \X SvcArgs : e[1].chatId = e[2].chatId}

\* C39: from every summary state a sequence of service calls leaves, the
\* summary update of every add, edit and delete changes only the
\* summaries of the transaction's own chat, only in the periods of its old
\* and new dates, and in them only the entries of its old and new from and to
\* members and txCount; every other chat, period and member entry is left
\* as it was.
C39_SummaryFrame ==
    svc.pc = "idle" =>
       /\ \A a \in SvcArgs :
             /\ FrameKept(summaries,
                          updateSummaryOnAdd(summaries, a.chatId, a.date,
                                             a.from, a.to, a.amount),
                          a.chatId, {a.date}, {a.from, a.to})
             /\ FrameKept(summaries,
                          updateSummaryOnDelete(summaries, a.chatId, a.date,
                                                a.from, a.to, a.amount),
                          a.chatId, {a.date}, {a.from, a.to})
       /\ \A e \in EditPairs :
             FrameKept(summaries,
                       updateSummaryOnEdit(summaries, e[1].chatId,
                                           SvcOld(e[1]), SvcOld(e[2])),
                       e[1].chatId, {e[1].date, e[2].date},
                       {e[1].from, e[1].to, e[2].from, e[2].to})

\* both chats have a summary, and an edit that moves a transaction of one
\* chat to another month changes that chat's document of the old period and
\* creates the one of the new period
C39_Witness ==
    /\ svc.pc = "idle"
    /\ \A c \in SvcChats : \E k \in DOMAIN summaries : k[1] = c
    /\ \E e \in EditPairs :
          LET T == updateSummaryOnEdit(summaries, e[1].chatId, SvcOld(e[1]),
                                       SvcOld(e[2]))
              old == Key(e[1].chatId, getYearMonth(e[1].date))
              new == Key(e[1].chatId, getYearMonth(e[2].date))
          IN  /\ old # new
              /\ old \in DOMAIN summaries /\ T[old] # summaries[old]
              /\ new \notin DOMAIN summaries /\ new \in DOMAIN T

====
